---- MODULE Spec2Model ----
(***************************************************************************)
(* Chat lifecycle and message pipeline of the lokreach backend: the chat   *)
(* routes (initiate, send, mark read, mark all read, status, list), the    *)
(* Chat and Message collections with their indexes, the campaign routes    *)
(* (apply, unapply, update, delete) that maintain the campaign document,   *)
(* the admin routes that set the status of a user, and the socket handler. *)
(*                                                                         *)
(* Every route handler is an async function: between two awaits it runs    *)
(* atomically on the event loop, and each awaited database operation takes *)
(* effect atomically on one document.  A request in flight is a process p  *)
(* with a program counter pc[p] naming the awaited operation it waits for; *)
(* one step of p is the effect of that operation followed by the           *)
(* handler's code up to the next await.                                    *)
(***************************************************************************)
EXTENDS Integers, Sequences, FiniteSets

(* ------------------------------ bounds --------------------------------- *)
MaxTime == 2
MaxChats == 2
MaxMsgs == 3
MaxReceipts == 2
MaxSockets == 2
MaxVersion == 3

(* ------------------------- program constants --------------------------- *)
MaxContentLen == 2000
MaxPageSize == 100

(* ------------------------------ universe ------------------------------- *)
Procs == {"p1", "p2"}
Brands == {"b1", "b2"}
Creators == {"k1", "k2"}
Users == Brands \cup Creators
Campaigns == {"c1"}

role(u) == IF u \in Brands THEN "brand" ELSE "creator"

\* req.app.get('io'): the socket server attached to the express app.
io == TRUE

ChatIds == 1..MaxChats
MsgIds == 1..MaxMsgs
SocketIds == 1..MaxSockets

(* ------------------------------ strings -------------------------------- *)
\* A string is abstracted to the number of leading whitespace characters,
\* the length of what is left after trimming, and the number of trailing
\* whitespace characters.
Str(l, b, t) == [lead |-> l, body |-> b, trail |-> t]
StrLen(s) == s.lead + s.body + s.trail
\* String.prototype.trim
trim(s) == IF s.body = 0 THEN Str(0, 0, 0) ELSE Str(0, s.body, 0)
\* JavaScript truthiness of a string: the empty string is falsy.
truthy(s) == StrLen(s) > 0

EmptyStr == Str(0, 0, 0)
\* userSchema.brandName (stored trimmed) of each brand
brandName(u) == IF u = "b1" THEN Str(0, 4, 0) ELSE Str(0, 1, 0)
\* `${brandName} started a conversation about "${campaign.name}"`: the two
\* names and the 32 characters between and around them.
systemContent(bn, cn) == Str(0, StrLen(bn) + 32 + StrLen(cn), 0)

\* messageSchema.content: required, maxlength 2000 (checked on the trimmed value)
contentValid(s) == trim(s).body > 0 /\ trim(s).body <= MaxContentLen

MessageTypes == {"text", "offer", "system"}
ChatStatuses == {"active", "archived", "blocked"}
RecruitmentStatuses == {"discussing", "offer_sent", "accepted", "declined", "completed"}

(* ------------------------------- state --------------------------------- *)
VARIABLES
  now,              \* the server clock read by new Date()
  approved,         \* users with role creator and status approved
  appliedCreators,  \* Campaign.appliedCreators, per campaign: the creators of its
                    \* entries, in array order
  campaigns,        \* the other fields of each Campaign document
  chats,            \* the Chat collection, in insertion order; _id = position
  messages,         \* the Message collection, in insertion order; _id = position
  nextOid,          \* number of subdocument ObjectIds generated so far
  emitted,          \* socket events published so far
  activeUsers,      \* the activeUsers Map: userId -> entry (socket 0: no entry)
  sockets,          \* the sockets: the user connected on each and the rooms it is in
  inbox,            \* the events delivered to the connection on each socket
  pc, req, loc, resp  \* the requests in flight

dbVars == <<approved, appliedCreators, campaigns, chats, messages>>
procVars == <<pc, req, loc, resp>>
sockVars == <<activeUsers, sockets, inbox>>
vars == <<now, approved, appliedCreators, campaigns, chats, messages, nextOid, emitted, activeUsers, sockets,
         inbox, pc, req, loc, resp>>

\* campaignSchema.endDate not set
NoDate == -1
\* campaignSchema.status: enum draft, active, expired, cancelled
CampaignStatuses == {"draft", "active", "expired", "cancelled"}

\* No document under this campaign id.
NoCampaign == [exists |-> FALSE, brand |-> "none", name |-> EmptyStr, status |-> "none",
               endDate |-> NoDate, version |-> 0]
\* campaignSchema with its defaults (status active, appliedCreators [])
newCampaignDoc(b, n) == [exists |-> TRUE, brand |-> b, name |-> n, status |-> "active",
                         endDate |-> NoDate, version |-> 0]
\* Campaign.brand: the owner of the campaign document ("none": no document).
campaignBrand(c) == campaigns[c].brand

\* req.body of PUT /api/campaigns/:id: the fields it gives and their values.
NoPatch == [fields |-> {}, brand |-> "none", name |-> EmptyStr, status |-> "none",
            endDate |-> NoDate, appliedCreators |-> <<>>]

NoReq == [op |-> "none", user |-> "none", campaign |-> "none", creator |-> "none",
          content |-> EmptyStr, mtype |-> "none", offer |-> FALSE, chat |-> 0,
          msg |-> 0, status |-> "none", rstatus |-> "none", page |-> 0, limit |-> 0,
          patch |-> NoPatch]
\* The handler's local variables: la is lastActivity of the chat document in
\* memory, name the name of the campaign loaded, applied and v the
\* appliedCreators array and the version (__v) of the campaign in memory.
NoLoc == [chat |-> 0, msg |-> 0, t |-> 0, oid |-> 0, n0 |-> 0, page |-> <<>>,
          la |-> 0, name |-> EmptyStr, applied |-> <<>>, v |-> 0]
\* A socket that is not connected.
NoSocket == [user |-> "none", rooms |-> {}]
\* No entry in activeUsers; status is the field update_status adds to an entry.
NoEntry == [socket |-> 0, status |-> "none"]
NoResp == [status |-> 0, error |-> "none", chatId |-> 0, msgId |-> 0, msgs |-> <<>>, total |-> 0]

Respond(st, err) == [NoResp EXCEPT !.status = st, !.error = err]

(* --------------------------- collections ------------------------------- *)
Range(s) == {s[i] : i \in DOMAIN s}

\* chatSchema with its defaults (status active, recruitmentStatus discussing)
newChatDoc(brandId, creatorId, campaignId, t) ==
  [participants |-> <<brandId, creatorId>>, campaign |-> campaignId,
   initiatedBy |-> brandId, lastMessage |-> 0, lastActivity |-> t,
   status |-> "active", recruitmentStatus |-> "discussing"]

\* messageSchema with its defaults (status sent, readBy [])
newMessageDoc(chatId, sender, content, mtype, offer, sysType, t) ==
  [chat |-> chatId, sender |-> sender, content |-> trim(content),
   messageType |-> mtype, offer |-> offer, status |-> "sent", readBy |-> <<>>,
   systemMessageType |-> sysType, createdAt |-> t]

\* The lookup that does not filter on the participants.
isParticipantAny(chatId, u) == chatId \in DOMAIN chats

isParticipant(chatId, u) ==
  chatId \in DOMAIN chats /\ u \in Range(chats[chatId].participants)

\* Chat.findOne({campaign, participants: {$all: [brandId, creatorId]}}): the
\* first matching document in natural order, 0 when there is none.
ChatsFor(campaignId, a, b) ==
  {i \in DOMAIN chats : chats[i].campaign = campaignId
                        /\ {a, b} \subseteq Range(chats[i].participants)}
Min(S) == CHOOSE x \in S : \A y \in S : x <= y
\* The lookup that finds nothing.
existingChatNone(campaignId, a, b) == 0

existingChat(campaignId, a, b) ==
  IF ChatsFor(campaignId, a, b) = {} THEN 0 ELSE Min(ChatsFor(campaignId, a, b))

\* The collection without its unique index.
duplicateKeyUnindexed(campaignId, parts) == FALSE

\* chatSchema.index({campaign: 1, participants: 1}, {unique: true}): a
\* multikey index holds one key (campaign, participant) per array element,
\* and no two documents may hold the same key.
duplicateKey(campaignId, parts) ==
  \E i \in DOMAIN chats : chats[i].campaign = campaignId
                          /\ Range(chats[i].participants) \cap Range(parts) # {}


(* ------------------------------- rooms --------------------------------- *)
\* The personal room that takes every user's notifications.
userRoomShared(u) == <<"user", "all">>

\* `user_${userId}`
userRoom(u) == <<"user", u>>
\* `chat_${chatId}`
chatRoom(c) == <<"chat", c>>
\* socket.broadcast: every connected socket
allRoom == <<"all", 0>>
\* socket.emit: the socket itself
socketRoom(s) == <<"socket", s>>

\* io.to(room).emit for each event of E; with a sender, socket.to(room).emit
\* and socket.broadcast.emit, which leave the sending socket out (0: none).
\* The rooms are read in the state given by socks.
publish(socks, E, sender) ==
  [r \in SocketIds |->
     IF r = sender THEN inbox[r]
     ELSE inbox[r] \cup {e \in E : IF e.room = allRoom THEN socks[r].user # "none"
                                   ELSE e.room \in socks[r].rooms}]

(* ------------------------- bookkeeping of caps ------------------------- *)
free(p) == pc[p] \in {"idle", "done"}

\* Messages a request in flight may still insert.
pendingMsgs(q) ==
  CASE pc[q] \in {"init_findCampaign", "init_findCreator", "init_findChat",
                  "init_saveChat", "init_saveSystem"}
         -> 1 + (IF truthy(req[q].content) /\ truthy(trim(req[q].content)) THEN 1 ELSE 0)
    [] pc[q] = "init_saveFirst" -> 1
    [] pc[q] \in {"send_findChat", "send_saveMessage"} -> 1
    [] OTHER -> 0

RECURSIVE pendingIn(_)
pendingIn(S) ==
  IF S = {} THEN 0
  ELSE LET x == CHOOSE y \in S : TRUE IN pendingMsgs(x) + pendingIn(S \ {x})

roomFor(n) == Len(messages) + pendingIn(Procs) + n <= MaxMsgs

(* ------------------------------- Init ---------------------------------- *)
Init ==
  /\ now = 0
  /\ approved \in {{"k1"}, {"k1", "k2"}}
  /\ appliedCreators = [c \in Campaigns |-> <<>>]
  /\ campaigns = [c \in Campaigns |-> newCampaignDoc("b1", Str(0, 13, 0))]
  /\ chats = <<>>
  /\ messages = <<>>
  /\ nextOid = 0
  /\ emitted = {}
  /\ activeUsers = [u \in Users |-> NoEntry]
  /\ sockets = [s \in SocketIds |-> NoSocket]
  /\ inbox = [s \in SocketIds |-> {}]
  /\ pc = [p \in Procs |-> "idle"]
  /\ req = [p \in Procs |-> NoReq]
  /\ loc = [p \in Procs |-> NoLoc]
  /\ resp = [p \in Procs |-> NoResp]

\* Time passes between two readings of the clock.
Tick ==
  /\ now < MaxTime
  /\ now' = now + 1
  /\ UNCHANGED <<inbox, activeUsers, sockets, approved, appliedCreators, campaigns, chats, messages, nextOid, emitted,
               pc, req, loc, resp>>

(* --------------------------- request handlers -------------------------- *)
Finish(p, r) ==
  /\ pc' = [pc EXCEPT ![p] = "done"]
  /\ resp' = [resp EXCEPT ![p] = r]
  /\ loc' = [loc EXCEPT ![p] = NoLoc]

Goto(p, label, l) ==
  /\ pc' = [pc EXCEPT ![p] = label]
  /\ loc' = [loc EXCEPT ![p] = l]
  /\ UNCHANGED resp

(* --------------------- campaign apply / unapply ------------------------ *)
\* Saves of a campaign document that the requests in flight may still issue.
pendingSaves ==
  Cardinality({q \in Procs : pc[q] \in {"apply_find", "apply_save",
                                          "unapply_find", "unapply_save"}})

\* The check that accepts every creator.
hasAppliedAny(c, k) == TRUE

\* campaign.appliedCreators.some(app => app.creator == creatorId)
hasApplied(c, k) == k \in Range(appliedCreators[c])

\* campaign.endDate && new Date() > campaign.endDate
expired(c) == campaigns[c].endDate # NoDate /\ now > campaigns[c].endDate

\* appliedCreators.findIndex(app => app.creator == creatorId): the first
\* position of k, 0 when there is none (positions count from 1).
applicationIndex(arr, k) ==
  IF k \in Range(arr) THEN Min({i \in DOMAIN arr : arr[i] = k}) ELSE 0

\* arr.splice(i, 1)
splice(arr, i) == [j \in 1..(Len(arr) - 1) |-> IF j < i THEN arr[j] ELSE arr[j + 1]]

\* POST /api/campaigns/:id/apply arrives: authorizeRoles("creator"), then
\* Campaign.findById is awaited.
ApplyStart(p, users, cs) ==
  /\ free(p)
  /\ \E k \in users, c \in cs :
       /\ campaigns[c].version + pendingSaves < MaxVersion
       /\ req' = [req EXCEPT ![p] = [NoReq EXCEPT !.op = "apply", !.user = k, !.campaign = c]]
       /\ IF role(k) # "creator"
            THEN Finish(p, Respond(403, "Forbidden: Access denied"))
          ELSE /\ pc' = [pc EXCEPT ![p] = "apply_find"]
               /\ loc' = [loc EXCEPT ![p] = NoLoc]
               /\ resp' = [resp EXCEPT ![p] = NoResp]
  /\ UNCHANGED <<inbox, activeUsers, sockets, now, approved, appliedCreators, campaigns, chats,
                 messages, nextOid, emitted>>

\* Campaign.findById resolves; the checks on the loaded document (exists,
\* active, not expired, not applied yet); the application is pushed onto the
\* array in memory and campaign.save() is awaited.
ApplyFind(p) ==
  /\ pc[p] = "apply_find"
  /\ LET c == req[p].campaign
         k == req[p].user
     IN IF ~campaigns[c].exists
          THEN Finish(p, Respond(404, "Campaign not found"))
        ELSE IF campaigns[c].status # "active"
          THEN Finish(p, Respond(400, "Campaign is not active"))
        ELSE IF expired(c)
          THEN Finish(p, Respond(400, "Campaign has expired"))
        ELSE IF hasApplied(c, k)
          THEN Finish(p, Respond(400, "You have already applied to this campaign"))
        ELSE Goto(p, "apply_save", [loc[p] EXCEPT !.applied = Append(appliedCreators[c], k),
                                                  !.v = campaigns[c].version])
  /\ UNCHANGED <<inbox, activeUsers, sockets, now, approved, appliedCreators, campaigns, chats,
                 messages, nextOid, emitted, req>>

\* campaign.save() after a push: $push of the new entry onto the array as it
\* is stored, with $inc of the version and no condition on it; a document
\* deleted in the meantime makes save() throw (caught: 500).
ApplySave(p) ==
  /\ pc[p] = "apply_save"
  /\ LET c == req[p].campaign
     IN IF ~campaigns[c].exists
          THEN /\ Finish(p, Respond(500, "Server error"))
               /\ UNCHANGED <<appliedCreators, campaigns>>
        ELSE /\ appliedCreators' = [appliedCreators EXCEPT ![c] = Append(@, req[p].user)]
             /\ campaigns' = [campaigns EXCEPT ![c].version = @ + 1]
             /\ Finish(p, [Respond(200, "none") EXCEPT !.total = Len(loc[p].applied)])
  /\ UNCHANGED <<inbox, activeUsers, sockets, now, approved, chats, messages, nextOid, emitted, req>>

ApplyStep(p) == ApplyFind(p) \/ ApplySave(p)

\* DELETE /api/campaigns/:id/unapply arrives: authorizeRoles("creator"), then
\* Campaign.findById is awaited.
UnapplyStart(p, users, cs) ==
  /\ free(p)
  /\ \E k \in users, c \in cs :
       /\ campaigns[c].version + pendingSaves < MaxVersion
       /\ req' = [req EXCEPT ![p] = [NoReq EXCEPT !.op = "unapply", !.user = k, !.campaign = c]]
       /\ IF role(k) # "creator"
            THEN Finish(p, Respond(403, "Forbidden: Access denied"))
          ELSE /\ pc' = [pc EXCEPT ![p] = "unapply_find"]
               /\ loc' = [loc EXCEPT ![p] = NoLoc]
               /\ resp' = [resp EXCEPT ![p] = NoResp]
  /\ UNCHANGED <<inbox, activeUsers, sockets, now, approved, appliedCreators, campaigns, chats,
                 messages, nextOid, emitted>>

\* Campaign.findById resolves; the first entry of the creator is spliced out
\* of the array in memory and campaign.save() is awaited.
UnapplyFind(p) ==
  /\ pc[p] = "unapply_find"
  /\ LET c == req[p].campaign
         i == applicationIndex(appliedCreators[c], req[p].user)
     IN IF ~campaigns[c].exists
          THEN Finish(p, Respond(404, "Campaign not found"))
        ELSE IF i = 0
          THEN Finish(p, Respond(400, "You have not applied to this campaign"))
        ELSE Goto(p, "unapply_save", [loc[p] EXCEPT !.applied = splice(appliedCreators[c], i),
                                                    !.v = campaigns[c].version])
  /\ UNCHANGED <<inbox, activeUsers, sockets, now, approved, appliedCreators, campaigns, chats,
                 messages, nextOid, emitted, req>>

\* campaign.save() after a splice: $set of the whole array as it is in
\* memory, on the condition that the stored version is the one loaded, with
\* $inc of the version; no document of that id and version makes save()
\* throw (VersionError, caught: 500).
UnapplySave(p) ==
  /\ pc[p] = "unapply_save"
  /\ LET c == req[p].campaign
     IN IF ~campaigns[c].exists \/ campaigns[c].version # loc[p].v
          THEN /\ Finish(p, Respond(500, "Server error"))
               /\ UNCHANGED <<appliedCreators, campaigns>>
        ELSE /\ appliedCreators' = [appliedCreators EXCEPT ![c] = loc[p].applied]
             /\ campaigns' = [campaigns EXCEPT ![c].version = @ + 1]
             /\ Finish(p, [Respond(200, "none") EXCEPT !.total = Len(loc[p].applied)])
  /\ UNCHANGED <<inbox, activeUsers, sockets, now, approved, chats, messages, nextOid, emitted, req>>

UnapplyStep(p) == UnapplyFind(p) \/ UnapplySave(p)

(* ------------------ PUT and DELETE /api/campaigns/:id ------------------ *)
\* The update validators (runValidators: true) on the fields given: name is
\* required, status is one of its enum.
patchValid(pt) ==
  /\ "name" \in pt.fields => truthy(pt.name)
  /\ "status" \in pt.fields => pt.status \in CampaignStatuses

\* The document after $set of the fields given; the version is not touched.
applyPatch(doc, pt) ==
  [doc EXCEPT !.brand = IF "brand" \in pt.fields THEN pt.brand ELSE @,
              !.name = IF "name" \in pt.fields THEN pt.name ELSE @,
              !.status = IF "status" \in pt.fields THEN pt.status ELSE @,
              !.endDate = IF "endDate" \in pt.fields THEN pt.endDate ELSE @]

\* PUT /api/campaigns/:id arrives: authorizeRoles("brand"), then
\* Campaign.findOne({_id, brand}) is awaited.
UpdateCampaignStart(p, users, cs, patches) ==
  /\ free(p)
  /\ \E u \in users, c \in cs, pt \in patches :
       /\ req' = [req EXCEPT ![p] = [NoReq EXCEPT !.op = "updateCampaign", !.user = u,
                                       !.campaign = c, !.patch = pt]]
       /\ IF role(u) # "brand"
            THEN Finish(p, Respond(403, "Forbidden: Access denied"))
          ELSE /\ pc' = [pc EXCEPT ![p] = "put_find"]
               /\ loc' = [loc EXCEPT ![p] = NoLoc]
               /\ resp' = [resp EXCEPT ![p] = NoResp]
  /\ UNCHANGED <<inbox, activeUsers, sockets, now, approved, appliedCreators, campaigns, chats,
                 messages, nextOid, emitted>>

\* Campaign.findOne resolves; Campaign.findByIdAndUpdate(id, req.body) is
\* awaited; its validators run before anything is written and can fail
\* (caught: 500).
UpdateCampaignFind(p) ==
  /\ pc[p] = "put_find"
  /\ IF campaignBrand(req[p].campaign) # req[p].user
       THEN Finish(p, Respond(404, "Campaign not found"))
     ELSE IF ~patchValid(req[p].patch)
       THEN Finish(p, Respond(500, "Server error"))
     ELSE Goto(p, "put_update", loc[p])
  /\ UNCHANGED <<inbox, activeUsers, sockets, now, approved, appliedCreators, campaigns, chats,
                 messages, nextOid, emitted, req>>

\* Campaign.findByIdAndUpdate sets the fields given on the document of that
\* id, whoever owns it by now; without a document it writes nothing; 200.
UpdateCampaignWrite(p) ==
  /\ pc[p] = "put_update"
  /\ LET c == req[p].campaign
         pt == req[p].patch
     IN IF campaigns[c].exists
          THEN /\ campaigns' = [campaigns EXCEPT ![c] = applyPatch(@, pt)]
               /\ appliedCreators' =
                    [appliedCreators EXCEPT ![c] = IF "appliedCreators" \in pt.fields
                                                     THEN pt.appliedCreators ELSE @]
        ELSE UNCHANGED <<appliedCreators, campaigns>>
  /\ Finish(p, Respond(200, "none"))
  /\ UNCHANGED <<inbox, activeUsers, sockets, now, approved, chats, messages, nextOid, emitted, req>>

UpdateCampaignStep(p) == UpdateCampaignFind(p) \/ UpdateCampaignWrite(p)

\* DELETE /api/campaigns/:id arrives: authorizeRoles("brand"), then
\* Campaign.findOne({_id, brand}) is awaited.
DeleteCampaignStart(p, users, cs) ==
  /\ free(p)
  /\ \E u \in users, c \in cs :
       /\ req' = [req EXCEPT ![p] = [NoReq EXCEPT !.op = "deleteCampaign", !.user = u,
                                       !.campaign = c]]
       /\ IF role(u) # "brand"
            THEN Finish(p, Respond(403, "Forbidden: Access denied"))
          ELSE /\ pc' = [pc EXCEPT ![p] = "delete_find"]
               /\ loc' = [loc EXCEPT ![p] = NoLoc]
               /\ resp' = [resp EXCEPT ![p] = NoResp]
  /\ UNCHANGED <<inbox, activeUsers, sockets, now, approved, appliedCreators, campaigns, chats,
                 messages, nextOid, emitted>>

\* Campaign.findOne resolves; Campaign.findByIdAndDelete is awaited.
DeleteCampaignFind(p) ==
  /\ pc[p] = "delete_find"
  /\ IF campaignBrand(req[p].campaign) # req[p].user
       THEN Finish(p, Respond(404, "Campaign not found"))
     ELSE Goto(p, "delete_delete", loc[p])
  /\ UNCHANGED <<inbox, activeUsers, sockets, now, approved, appliedCreators, campaigns, chats,
                 messages, nextOid, emitted, req>>

\* Campaign.findByIdAndDelete removes the document of that id, if any; 200.
DeleteCampaignDelete(p) ==
  /\ pc[p] = "delete_delete"
  /\ campaigns' = [campaigns EXCEPT ![req[p].campaign] = NoCampaign]
  /\ appliedCreators' = [appliedCreators EXCEPT ![req[p].campaign] = <<>>]
  /\ Finish(p, Respond(200, "none"))
  /\ UNCHANGED <<inbox, activeUsers, sockets, now, approved, chats, messages, nextOid, emitted, req>>

DeleteCampaignStep(p) == DeleteCampaignFind(p) \/ DeleteCampaignDelete(p)

(* ------------------------- admin: user status -------------------------- *)
\* The admin routes write User.status.  The chat routes read it only as
\* "creator with status approved", the set approved.  Each action below is
\* the write of its route landing on the document of creator k; the lookup
\* before it reads the status only to refuse a request that would change
\* nothing.

\* The approved creators after status st is written on creator k.
withStatus(k, st) == IF st = "approved" THEN approved \cup {k} ELSE approved \ {k}

\* PATCH /api/admin/creators/:creatorId/approve: creator.save() with status
\* approved.
ApproveCreator(k) ==
  /\ approved' = withStatus(k, "approved")
  /\ UNCHANGED <<inbox, activeUsers, sockets, now, appliedCreators, campaigns, chats, messages,
                 nextOid, emitted, pc, req, loc, resp>>

\* PATCH /api/admin/creators/:creatorId/reject: creator.save() with status
\* rejected.
RejectCreator(k) ==
  /\ approved' = withStatus(k, "rejected")
  /\ UNCHANGED <<inbox, activeUsers, sockets, now, appliedCreators, campaigns, chats, messages,
                 nextOid, emitted, pc, req, loc, resp>>

\* statusMap of the bulk route: the status each of its actions writes.
statusMap(action) ==
  CASE action = "approve" -> "approved"
    [] action = "reject" -> "rejected"
    [] action = "pending" -> "pending"

\* PATCH /api/admin/users/bulk-action: User.updateMany writes the status on
\* the documents of userIds one at a time; this is its write on creator k.
BulkAction(k, action) ==
  /\ action \in {"approve", "reject", "pending"}
  /\ approved' = withStatus(k, statusMap(action))
  /\ UNCHANGED <<inbox, activeUsers, sockets, now, appliedCreators, campaigns, chats, messages,
                 nextOid, emitted, pc, req, loc, resp>>

\* PATCH /api/admin/users/:userId/status: user.save() with the status given
\* (pending, approved or rejected).
UserStatus(k, st) ==
  /\ st \in {"pending", "approved", "rejected"}
  /\ approved' = withStatus(k, st)
  /\ UNCHANGED <<inbox, activeUsers, sockets, now, appliedCreators, campaigns, chats, messages,
                 nextOid, emitted, pc, req, loc, resp>>

(* ------------------------ POST /api/chats/initiate --------------------- *)
\* The request arrives: authorizeRoles("brand"), the check that both ids are
\* given, then Campaign.findOne is awaited.
InitiateStart(p, users, cs, contents) ==
  /\ free(p)
  /\ Len(chats) < MaxChats
  /\ \E u \in users, c \in cs, k \in Creators, m \in contents :
       /\ roomFor(1 + (IF truthy(m) /\ truthy(trim(m)) THEN 1 ELSE 0))
       /\ req' = [req EXCEPT ![p] = [NoReq EXCEPT !.op = "initiate", !.user = u,
                                       !.campaign = c, !.creator = k, !.content = m]]
       /\ IF role(u) # "brand"
            THEN Finish(p, Respond(403, "Forbidden: Access denied"))
          ELSE IF c = "none"
            THEN Finish(p, Respond(400, "Campaign ID and Creator ID are required"))
          ELSE /\ pc' = [pc EXCEPT ![p] = "init_findCampaign"]
               /\ loc' = [loc EXCEPT ![p] = NoLoc]
               /\ resp' = [resp EXCEPT ![p] = NoResp]
  /\ UNCHANGED <<inbox, activeUsers, sockets, now, approved, appliedCreators, campaigns, chats, messages, nextOid, emitted>>

\* The two checks on the loaded campaign in the other order.
InitiateFindCampaignSwapped(p) ==
  /\ pc[p] = "init_findCampaign"
  /\ IF ~hasApplied(req[p].campaign, req[p].creator)
       THEN Finish(p, Respond(400, "Creator has not applied to this campaign"))
     ELSE IF campaignBrand(req[p].campaign) # req[p].user
       THEN Finish(p, Respond(404, "Campaign not found or access denied"))
     ELSE Goto(p, "init_findCreator", [loc[p] EXCEPT !.name = campaigns[req[p].campaign].name])
  /\ UNCHANGED <<inbox, activeUsers, sockets, now, approved, appliedCreators, campaigns, chats, messages, nextOid, emitted, req>>

\* Campaign.findOne({_id, brand}) resolves; hasApplied is computed on the
\* loaded document, whose name the handler keeps; then User.findOne is
\* awaited.
InitiateFindCampaign(p) ==
  /\ pc[p] = "init_findCampaign"
  /\ IF campaignBrand(req[p].campaign) # req[p].user
       THEN Finish(p, Respond(404, "Campaign not found or access denied"))
     ELSE IF ~hasApplied(req[p].campaign, req[p].creator)
       THEN Finish(p, Respond(400, "Creator has not applied to this campaign"))
     ELSE Goto(p, "init_findCreator", [loc[p] EXCEPT !.name = campaigns[req[p].campaign].name])
  /\ UNCHANGED <<inbox, activeUsers, sockets, now, approved, appliedCreators, campaigns, chats, messages, nextOid, emitted, req>>

\* User.findOne({_id, role: "creator", status: "approved"}) resolves; then
\* Chat.findOne is awaited.
InitiateFindCreator(p) ==
  /\ pc[p] = "init_findCreator"
  /\ IF req[p].creator \notin approved
       THEN Finish(p, Respond(404, "Creator not found"))
     ELSE Goto(p, "init_findChat", loc[p])
  /\ UNCHANGED <<inbox, activeUsers, sockets, now, approved, appliedCreators, campaigns, chats, messages, nextOid, emitted, req>>

\* Chat.findOne resolves; when there is none, new Chat({..., lastActivity:
\* new Date()}) is built and its save is awaited.
InitiateFindChat(p) ==
  /\ pc[p] = "init_findChat"
  /\ LET e == existingChat(req[p].campaign, req[p].user, req[p].creator) IN
       IF e # 0
         THEN Finish(p, [Respond(400, "Chat already exists") EXCEPT !.chatId = e])
       ELSE Goto(p, "init_saveChat", [loc[p] EXCEPT !.t = now, !.la = now])
  /\ UNCHANGED <<inbox, activeUsers, sockets, now, approved, appliedCreators, campaigns, chats, messages, nextOid, emitted, req>>

\* newChat.save() inserts the chat, or throws on a duplicate key (caught:
\* 500); then the system message is built and its save is awaited; its
\* validation (content maxlength) can fail before anything more is written,
\* which the catch turns into a 500.
InitiateSaveChat(p) ==
  /\ pc[p] = "init_saveChat"
  /\ IF duplicateKey(req[p].campaign, <<req[p].user, req[p].creator>>)
       THEN /\ Finish(p, Respond(500, "Server error"))
            /\ UNCHANGED chats
     ELSE /\ chats' = Append(chats, newChatDoc(req[p].user, req[p].creator,
                                               req[p].campaign, loc[p].la))
          /\ IF contentValid(systemContent(brandName(req[p].user), loc[p].name))
               THEN Goto(p, "init_saveSystem", [loc[p] EXCEPT !.chat = Len(chats) + 1, !.t = now])
             ELSE Finish(p, Respond(500, "Server error"))
  /\ UNCHANGED <<inbox, activeUsers, sockets, now, approved, appliedCreators, campaigns, messages, nextOid, emitted, req>>

\* systemMessage.save() inserts the system message; then either the first
\* message is built and its save awaited (its validation can fail: 500), or
\* lastMessage is set to the system message and newChat.save() is awaited.
InitiateSaveSystem(p) ==
  /\ pc[p] = "init_saveSystem"
  /\ messages' = Append(messages,
                        newMessageDoc(loc[p].chat, req[p].user,
                                      systemContent(brandName(req[p].user), loc[p].name),
                                      "system", FALSE, "chat_started", loc[p].t))
  /\ IF truthy(req[p].content) /\ truthy(trim(req[p].content))
       THEN IF contentValid(req[p].content)
              THEN Goto(p, "init_saveFirst", [loc[p] EXCEPT !.t = now])
            ELSE Finish(p, Respond(500, "Server error"))
     ELSE Goto(p, "init_saveChat2",
               [loc[p] EXCEPT !.msg = Len(messages) + 1, !.t = now])
  /\ UNCHANGED <<inbox, activeUsers, sockets, now, approved, appliedCreators, campaigns, chats, nextOid, emitted, req>>

\* firstMessage.save() inserts the text message; lastMessage is set to it
\* and newChat.save() is awaited.
InitiateSaveFirst(p) ==
  /\ pc[p] = "init_saveFirst"
  /\ messages' = Append(messages, newMessageDoc(loc[p].chat, req[p].user, req[p].content,
                                                "text", FALSE, "none", loc[p].t))
  /\ Goto(p, "init_saveChat2", [loc[p] EXCEPT !.msg = Len(messages) + 1, !.t = now])
  /\ UNCHANGED <<inbox, activeUsers, sockets, now, approved, appliedCreators, campaigns, chats, nextOid, emitted, req>>

\* The final save without the lastMessage pointer.
InitiateSaveChat2NoPointer(p) ==
  /\ pc[p] = "init_saveChat2"
  /\ chats' = [chats EXCEPT ![loc[p].chat].lastActivity =
                               IF loc[p].t # loc[p].la THEN loc[p].t ELSE @]
  /\ Goto(p, "init_populate", loc[p])
  /\ UNCHANGED <<inbox, activeUsers, sockets, now, approved, appliedCreators, campaigns, messages, nextOid, emitted, req>>

\* newChat.save() writes the modified paths: lastMessage, and lastActivity
\* when the time set differs from the one the document in memory had; then
\* Chat.findById(...).populate(...) is awaited.
InitiateSaveChat2(p) ==
  /\ pc[p] = "init_saveChat2"
  /\ chats' = [chats EXCEPT ![loc[p].chat].lastMessage = loc[p].msg,
                            ![loc[p].chat].lastActivity =
                               IF loc[p].t # loc[p].la THEN loc[p].t ELSE @]
  /\ Goto(p, "init_populate", loc[p])
  /\ UNCHANGED <<inbox, activeUsers, sockets, now, approved, appliedCreators, campaigns, messages, nextOid, emitted, req>>

\* The populated chat is loaded, new_chat is emitted to the creator's
\* personal room and 201 is returned.
InitiatePopulate(p) ==
  /\ pc[p] = "init_populate"
  /\ LET E == {[room |-> userRoom(req[p].creator), event |-> "new_chat",
                 chat |-> loc[p].chat, msg |-> 0, from |-> req[p].user]}
     IN /\ emitted' = IF io THEN emitted \cup E ELSE emitted
        /\ inbox' = IF io THEN publish(sockets, E, 0) ELSE inbox
  /\ Finish(p, [Respond(201, "none") EXCEPT !.chatId = loc[p].chat])
  /\ UNCHANGED <<activeUsers, sockets, now, approved, appliedCreators, campaigns, chats, messages, nextOid, req>>

InitiateStep(p) ==
  \/ InitiateFindCampaign(p)
  \/ InitiateFindCreator(p)
  \/ InitiateFindChat(p)
  \/ InitiateSaveChat(p)
  \/ InitiateSaveSystem(p)
  \/ InitiateSaveFirst(p)
  \/ InitiateSaveChat2(p)
  \/ InitiatePopulate(p)


(* ------------------- POST /api/chats/:chatId/messages ------------------ *)
\* messageSchema.messageType: enum text, offer, system
messageTypeValid(mt) == mt \in MessageTypes

\* The request arrives: the content check, then Chat.findOne is awaited.
SendStart(p, users, chatIds, contents, mtypes, offers) ==
  /\ free(p)
  /\ roomFor(1)
  /\ \E u \in users, c \in chatIds, m \in contents, mt \in mtypes, o \in offers :
       /\ req' = [req EXCEPT ![p] = [NoReq EXCEPT !.op = "send", !.user = u, !.chat = c,
                                       !.content = m, !.mtype = mt, !.offer = o]]
       /\ IF ~truthy(m) \/ trim(m) = EmptyStr
            THEN Finish(p, Respond(400, "Message content is required"))
          ELSE /\ pc' = [pc EXCEPT ![p] = "send_findChat"]
               /\ loc' = [loc EXCEPT ![p] = NoLoc]
               /\ resp' = [resp EXCEPT ![p] = NoResp]
  /\ UNCHANGED <<inbox, activeUsers, sockets, now, approved, appliedCreators, campaigns, chats, messages, nextOid, emitted>>

\* The lookup without the status of the chat in its filter.
findActiveChatAnyStatus(chatId, u) == isParticipant(chatId, u)

\* Chat.findOne({_id: chatId, participants: userId, status: "active"})
findActiveChat(chatId, u) == isParticipant(chatId, u) /\ chats[chatId].status = "active"

\* Chat.findOne resolves; the message is built and newMessage.save() is
\* awaited; its validation (content maxlength, messageType enum) can fail
\* before anything is written, which the catch turns into a 500.
SendFindChat(p) ==
  /\ pc[p] = "send_findChat"
  /\ IF ~findActiveChat(req[p].chat, req[p].user)
       THEN Finish(p, Respond(404, "Chat not found or inactive"))
     ELSE IF ~(contentValid(req[p].content) /\ messageTypeValid(req[p].mtype))
       THEN Finish(p, Respond(500, "Server error"))
     ELSE Goto(p, "send_saveMessage",
               [loc[p] EXCEPT !.chat = req[p].chat, !.t = now,
                              !.la = chats[req[p].chat].lastActivity])
  /\ UNCHANGED <<inbox, activeUsers, sockets, now, approved, appliedCreators, campaigns, chats, messages, nextOid, emitted, req>>

\* newMessage.save() inserts the message; chat.lastMessage and
\* chat.lastActivity are set on the loaded chat and chat.save() is awaited.
SendSaveMessage(p) ==
  /\ pc[p] = "send_saveMessage"
  /\ messages' = Append(messages,
                        newMessageDoc(req[p].chat, req[p].user, req[p].content, req[p].mtype,
                                      req[p].mtype = "offer" /\ req[p].offer, "none", loc[p].t))
  /\ Goto(p, "send_saveChat", [loc[p] EXCEPT !.msg = Len(messages) + 1, !.t = now])
  /\ UNCHANGED <<inbox, activeUsers, sockets, now, approved, appliedCreators, campaigns, chats, nextOid, emitted, req>>

\* chat.save() writes the modified paths: lastMessage, and lastActivity when
\* the time set differs from the one the chat was loaded with; then
\* Message.findById(...).populate(...) is awaited.
SendSaveChat(p) ==
  /\ pc[p] = "send_saveChat"
  /\ chats' = [chats EXCEPT ![loc[p].chat].lastMessage = loc[p].msg,
                            ![loc[p].chat].lastActivity =
                               IF loc[p].t # loc[p].la THEN loc[p].t ELSE @]
  /\ Goto(p, "send_populate", loc[p])
  /\ UNCHANGED <<inbox, activeUsers, sockets, now, approved, appliedCreators, campaigns, messages, nextOid, emitted, req>>

\* The populated message is loaded, new_message is emitted to the personal
\* room of every other participant and 201 is returned.
otherParticipants(chatId, u) == Range(chats[chatId].participants) \ {u}

\* The handler that gives up when a recipient is not connected.
SendPopulateOnline(p) ==
  /\ pc[p] = "send_populate"
  /\ IF \E o \in otherParticipants(loc[p].chat, req[p].user) : activeUsers[o].socket = 0
       THEN /\ Finish(p, Respond(503, "Unavailable"))
            /\ UNCHANGED <<emitted, inbox>>
     ELSE /\ LET E == {[room |-> userRoom(o), event |-> "new_message",
                        chat |-> loc[p].chat, msg |-> loc[p].msg, from |-> req[p].user]
                       : o \in otherParticipants(loc[p].chat, req[p].user)}
             IN emitted' = emitted \cup E /\ inbox' = publish(sockets, E, 0)
          /\ Finish(p, [Respond(201, "none") EXCEPT !.chatId = loc[p].chat, !.msgId = loc[p].msg])
  /\ UNCHANGED <<activeUsers, sockets, now, approved, appliedCreators, campaigns, chats, messages, nextOid, req>>

SendPopulate(p) ==
  /\ pc[p] = "send_populate"
  /\ LET E == {[room |-> userRoom(o), event |-> "new_message",
                 chat |-> loc[p].chat, msg |-> loc[p].msg, from |-> req[p].user]
                : o \in otherParticipants(loc[p].chat, req[p].user)}
     IN /\ emitted' = IF io THEN emitted \cup E ELSE emitted
        /\ inbox' = IF io THEN publish(sockets, E, 0) ELSE inbox
  /\ Finish(p, [Respond(201, "none") EXCEPT !.chatId = loc[p].chat, !.msgId = loc[p].msg])
  /\ UNCHANGED <<activeUsers, sockets, now, approved, appliedCreators, campaigns, chats, messages, nextOid, req>>

SendStep(p) ==
  \/ SendFindChat(p)
  \/ SendSaveMessage(p)
  \/ SendSaveChat(p)
  \/ SendPopulate(p)

(* ------------ PATCH /api/chats/:chatId/messages/:messageId/read -------- *)
\* Subdocument ids not yet generated by the read requests in flight.
pendingOids == Cardinality({q \in Procs : pc[q] \in {"read_findChat", "readAll_findChat"}})

\* $addToSet of MongoDB: the element is appended unless an equal element
\* (all fields equal) is in the array.
addToSet(arr, e) == IF e \in Range(arr) THEN arr ELSE Append(arr, e)

\* The readBy subdocument as mongoose casts it for the update: user, readAt
\* and a generated _id.
readByEntry(u, t, oid) == [user |-> u, readAt |-> t, id |-> oid]

ReadStart(p, users, chatIds, msgIds) ==
  /\ free(p)
  /\ nextOid + pendingOids < MaxReceipts
  /\ \E u \in users, c \in chatIds, m \in msgIds :
       req' = [req EXCEPT ![p] = [NoReq EXCEPT !.op = "markRead", !.user = u,
                                    !.chat = c, !.msg = m]]
  /\ pc' = [pc EXCEPT ![p] = "read_findChat"]
  /\ loc' = [loc EXCEPT ![p] = NoLoc]
  /\ resp' = [resp EXCEPT ![p] = NoResp]
  /\ UNCHANGED <<inbox, activeUsers, sockets, now, approved, appliedCreators, campaigns, chats, messages, nextOid, emitted>>

\* Chat.findOne({_id, participants: userId}) resolves; the update is built
\* with readAt: new Date() and Message.findOneAndUpdate is awaited.
ReadFindChat(p) ==
  /\ pc[p] = "read_findChat"
  /\ IF ~isParticipant(req[p].chat, req[p].user)
       THEN /\ Finish(p, Respond(404, "Chat not found"))
            /\ UNCHANGED nextOid
     ELSE /\ Goto(p, "read_update", [loc[p] EXCEPT !.t = now, !.oid = nextOid + 1])
          /\ nextOid' = nextOid + 1
  /\ UNCHANGED <<inbox, activeUsers, sockets, now, approved, appliedCreators, campaigns, chats, messages, emitted, req>>

\* Message.findOneAndUpdate({_id, chat, sender: {$ne: userId}},
\*   {status: "read", $addToSet: {readBy: {user, readAt}}})
readFilter(m, chatId, u) ==
  m \in DOMAIN messages /\ messages[m].chat = chatId /\ messages[m].sender # u

\* The update without the status.
markReadDocNoStatus(doc, u, t, oid) ==
  [doc EXCEPT !.readBy = addToSet(@, readByEntry(u, t, oid))]

markReadDoc(doc, u, t, oid) ==
  [doc EXCEPT !.status = "read", !.readBy = addToSet(@, readByEntry(u, t, oid))]

ReadUpdate(p) ==
  /\ pc[p] = "read_update"
  /\ IF ~readFilter(req[p].msg, req[p].chat, req[p].user)
       THEN /\ Finish(p, Respond(404, "Message not found"))
            /\ UNCHANGED messages
     ELSE /\ messages' = [messages EXCEPT ![req[p].msg] =
                            markReadDoc(@, req[p].user, loc[p].t, loc[p].oid)]
          /\ Finish(p, [Respond(200, "none") EXCEPT !.msgId = req[p].msg])
  /\ UNCHANGED <<inbox, activeUsers, sockets, now, approved, appliedCreators, campaigns, chats, nextOid, emitted, req>>

ReadStep(p) == ReadFindChat(p) \/ ReadUpdate(p)

(* -------------------- PATCH /api/chats/:chatId/read-all ---------------- *)
ReadAllStart(p, users, chatIds) ==
  /\ free(p)
  /\ nextOid + pendingOids < MaxReceipts
  /\ \E u \in users, c \in chatIds :
       req' = [req EXCEPT ![p] = [NoReq EXCEPT !.op = "markAllRead", !.user = u, !.chat = c]]
  /\ pc' = [pc EXCEPT ![p] = "readAll_findChat"]
  /\ loc' = [loc EXCEPT ![p] = NoLoc]
  /\ resp' = [resp EXCEPT ![p] = NoResp]
  /\ UNCHANGED <<inbox, activeUsers, sockets, now, approved, appliedCreators, campaigns, chats, messages, nextOid, emitted>>

\* Chat.findOne resolves; the update is built with readAt: new Date() and
\* Message.updateMany is awaited.
ReadAllFindChat(p) ==
  /\ pc[p] = "readAll_findChat"
  /\ IF ~isParticipant(req[p].chat, req[p].user)
       THEN /\ Finish(p, Respond(404, "Chat not found"))
            /\ UNCHANGED nextOid
     ELSE /\ Goto(p, "readAll_update",
                  [loc[p] EXCEPT !.t = now, !.oid = nextOid + 1, !.n0 = Len(messages)])
          /\ nextOid' = nextOid + 1
  /\ UNCHANGED <<inbox, activeUsers, sockets, now, approved, appliedCreators, campaigns, chats, messages, emitted, req>>

\* Message.updateMany({chat, sender: {$ne: userId}, status: {$ne: "read"}}, ...)
\* updates the matching documents one at a time: each document write is
\* atomic, the whole operation is not.  Documents inserted after the scan
\* began may or may not be visited.
\* The filter that selects the reader's own messages.
readAllFilterOwn(chatId, u) ==
  {m \in DOMAIN messages : messages[m].chat = chatId /\ messages[m].sender = u
                           /\ messages[m].status # "read"}

readAllFilter(chatId, u) ==
  {m \in DOMAIN messages : messages[m].chat = chatId /\ messages[m].sender # u
                           /\ messages[m].status # "read"}

ReadAllUpdate(p) ==
  /\ pc[p] = "readAll_update"
  /\ \/ /\ \E m \in readAllFilter(req[p].chat, req[p].user) :
             messages' = [messages EXCEPT ![m] =
                            markReadDoc(@, req[p].user, loc[p].t, loc[p].oid)]
        /\ UNCHANGED <<pc, loc, resp>>
     \/ /\ \A m \in readAllFilter(req[p].chat, req[p].user) : m > loc[p].n0
        /\ Finish(p, Respond(200, "none"))
        /\ UNCHANGED messages
  /\ UNCHANGED <<inbox, activeUsers, sockets, now, approved, appliedCreators, campaigns, chats, nextOid, emitted, req>>

ReadAllStep(p) == ReadAllFindChat(p) \/ ReadAllUpdate(p)

(* --------------------- PATCH /api/chats/:chatId/status ----------------- *)
\* The request arrives: both enums are checked when given ("none": not
\* given), then Chat.findOne is awaited.
StatusStart(p, users, chatIds, statuses, rstatuses) ==
  /\ free(p)
  /\ \E u \in users, c \in chatIds, st \in statuses, rs \in rstatuses :
       /\ req' = [req EXCEPT ![p] = [NoReq EXCEPT !.op = "setStatus", !.user = u, !.chat = c,
                                       !.status = st, !.rstatus = rs]]
       /\ IF st # "none" /\ st \notin ChatStatuses
            THEN Finish(p, Respond(400, "Invalid status"))
          ELSE IF rs # "none" /\ rs \notin RecruitmentStatuses
            THEN Finish(p, Respond(400, "Invalid recruitment status"))
          ELSE /\ pc' = [pc EXCEPT ![p] = "status_findChat"]
               /\ loc' = [loc EXCEPT ![p] = NoLoc]
               /\ resp' = [resp EXCEPT ![p] = NoResp]
  /\ UNCHANGED <<inbox, activeUsers, sockets, now, approved, appliedCreators, campaigns, chats, messages, nextOid, emitted>>

\* Chat.findOne({_id, participants: userId}) resolves; updateData is built
\* and Chat.findByIdAndUpdate is awaited.
StatusFindChat(p) ==
  /\ pc[p] = "status_findChat"
  /\ IF ~isParticipant(req[p].chat, req[p].user)
       THEN Finish(p, Respond(404, "Chat not found"))
     ELSE Goto(p, "status_update", [loc[p] EXCEPT !.chat = req[p].chat])
  /\ UNCHANGED <<inbox, activeUsers, sockets, now, approved, appliedCreators, campaigns, chats, messages, nextOid, emitted, req>>

\* The update that leaves a blocked chat blocked and a completed
\* recruitment completed.
updateDataGraph(doc, st, rs) ==
  [doc EXCEPT !.status = IF st # "none" /\ @ # "blocked" THEN st ELSE @,
              !.recruitmentStatus = IF rs # "none" /\ @ # "completed" THEN rs ELSE @]

\* Chat.findByIdAndUpdate(chatId, updateData) sets the given fields only.
updateData(doc, st, rs) ==
  [doc EXCEPT !.status = IF st # "none" THEN st ELSE @,
              !.recruitmentStatus = IF rs # "none" THEN rs ELSE @]

StatusUpdate(p) ==
  /\ pc[p] = "status_update"
  /\ chats' = [chats EXCEPT ![loc[p].chat] = updateData(@, req[p].status, req[p].rstatus)]
  /\ Finish(p, [Respond(200, "none") EXCEPT !.chatId = loc[p].chat])
  /\ UNCHANGED <<inbox, activeUsers, sockets, now, approved, appliedCreators, campaigns, messages, nextOid, emitted, req>>

StatusStep(p) == StatusFindChat(p) \/ StatusUpdate(p)


(* ----------------------------- GET /api/chats ------------------------- *)
\* Message.countDocuments({chat, sender: {$ne: userId}, status: {$ne: "read"}})
unreadCount(chatId, u) ==
  Cardinality({m \in DOMAIN messages : messages[m].chat = chatId /\ messages[m].sender # u
                                       /\ messages[m].status # "read"})

(* ------------------- GET /api/chats/:chatId/messages ------------------- *)
Max2(a, b) == IF a >= b THEN a ELSE b
Min2(a, b) == IF a <= b THEN a ELSE b

\* Math.max(1, parseInt(page))
pageNumber(page) == Max2(1, page)
\* Math.min(100, Math.max(1, parseInt(limit)))
pageSize(limit) == Min2(MaxPageSize, Max2(1, limit))
skip(page, limit) == (pageNumber(page) - 1) * pageSize(limit)

chatMessages(chatId) == {m \in DOMAIN messages : messages[m].chat = chatId}

\* .sort({createdAt: -1}): every order of the chat's messages with createdAt
\* non-increasing; the order among equal timestamps is not fixed by the query.
sortedNewestFirst(chatId) ==
  LET S == chatMessages(chatId)
      n == Cardinality(S)
  IN {s \in [1..n -> S] :
        /\ \A i, j \in 1..n : i # j => s[i] # s[j]
        /\ \A i, j \in 1..n : i < j => messages[s[i]].createdAt >= messages[s[j]].createdAt}

\* .skip(skip).limit(pageSize)
skipLimit(s, sk, lim) ==
  [i \in 1..Max2(0, Min2(Len(s) - sk, lim)) |-> s[sk + i]]

\* messages.reverse()
reverse(s) == [i \in 1..Len(s) |-> s[Len(s) + 1 - i]]

\* Math.ceil(totalCount / pageSize)
totalPages(total, limit) == (total + pageSize(limit) - 1) \div pageSize(limit)

\* The page a request returns when its query sorts the chat's messages as s.
pageOf(s, page, limit) == reverse(skipLimit(s, skip(page, limit), pageSize(limit)))

ListStart(p, users, chatIds, pages, limits) ==
  /\ free(p)
  /\ \E u \in users, c \in chatIds, pg \in pages, lm \in limits :
       req' = [req EXCEPT ![p] = [NoReq EXCEPT !.op = "listMessages", !.user = u, !.chat = c,
                                    !.page = pg, !.limit = lm]]
  /\ pc' = [pc EXCEPT ![p] = "list_findChat"]
  /\ loc' = [loc EXCEPT ![p] = NoLoc]
  /\ resp' = [resp EXCEPT ![p] = NoResp]
  /\ UNCHANGED <<inbox, activeUsers, sockets, now, approved, appliedCreators, campaigns, chats, messages, nextOid, emitted>>

\* Chat.findOne({_id, participants: userId}) resolves; Message.find is awaited.
ListFindChat(p) ==
  /\ pc[p] = "list_findChat"
  /\ IF ~isParticipant(req[p].chat, req[p].user)
       THEN Finish(p, Respond(404, "Chat not found"))
     ELSE Goto(p, "list_find", loc[p])
  /\ UNCHANGED <<inbox, activeUsers, sockets, now, approved, appliedCreators, campaigns, chats, messages, nextOid, emitted, req>>

\* Message.find({chat}).sort({createdAt: -1}).skip(skip).limit(pageSize)
\* resolves and the page is reversed; Message.countDocuments is awaited.
ListFind(p) ==
  /\ pc[p] = "list_find"
  /\ \E s \in sortedNewestFirst(req[p].chat) :
       Goto(p, "list_count",
            [loc[p] EXCEPT !.page = reverse(skipLimit(s, skip(req[p].page, req[p].limit),
                                                      pageSize(req[p].limit)))])
  /\ UNCHANGED <<inbox, activeUsers, sockets, now, approved, appliedCreators, campaigns, chats, messages, nextOid, emitted, req>>

\* Message.countDocuments({chat}) resolves and 200 is returned.
ListCount(p) ==
  /\ pc[p] = "list_count"
  /\ Finish(p, [Respond(200, "none") EXCEPT !.chatId = req[p].chat, !.msgs = loc[p].page,
                                            !.total = Cardinality(chatMessages(req[p].chat))])
  /\ UNCHANGED <<inbox, activeUsers, sockets, now, approved, appliedCreators, campaigns, chats, messages, nextOid, emitted, req>>

ListStep(p) == ListFindChat(p) \/ ListFind(p) \/ ListCount(p)

(* ------------------------- socket handler ------------------------------ *)
\* An event as published: the room it is sent to, its name, the chat and
\* message it is about (0: none) and the identity it comes from.
Event(room, name, chatId, m, u) ==
  [room |-> room, event |-> name, chat |-> chatId, msg |-> m, from |-> u]

\* The registration that keeps the entry a user already has.
ConnectKeep(s, u) ==
  /\ sockets[s].user = "none"
  /\ activeUsers' = IF activeUsers[u].socket # 0 THEN activeUsers
                    ELSE [activeUsers EXCEPT ![u] = [socket |-> s, status |-> "none"]]
  /\ sockets' = [sockets EXCEPT ![s] = [user |-> u, rooms |-> {userRoom(u)}]]
  /\ LET e == Event(socketRoom(s), "connected", 0, 0, u)
     IN /\ emitted' = emitted \cup {e}
        /\ inbox' = [inbox EXCEPT ![s] = {e}]
  /\ UNCHANGED <<now, approved, appliedCreators, campaigns, chats, messages, nextOid, pc, req, loc, resp>>

\* handleConnection: socketAuth has set socket.userId; the user's entry of
\* activeUsers is set to a new entry for this socket, the socket joins the
\* personal room user_<id> and "connected" is emitted to it.
Connect(s, u) ==
  /\ sockets[s].user = "none"
  /\ activeUsers' = [activeUsers EXCEPT ![u] = [socket |-> s, status |-> "none"]]
  /\ sockets' = [sockets EXCEPT ![s] = [user |-> u, rooms |-> {userRoom(u)}]]
  /\ LET e == Event(socketRoom(s), "connected", 0, 0, u)
     IN /\ emitted' = emitted \cup {e}
        /\ inbox' = [inbox EXCEPT ![s] = {e}]
  /\ UNCHANGED <<now, approved, appliedCreators, campaigns, chats, messages, nextOid, pc, req, loc, resp>>

\* socket.to(room).emit(name): the event goes to the sockets that are in the
\* room in the state given by socks, the sending socket s left out.
SocketEmit(s, socks, e) ==
  /\ emitted' = emitted \cup {e}
  /\ inbox' = publish(socks, {e}, s)

\* socket.on("join_chat"): the socket joins chat_<chatId> and user_online is
\* emitted to the others in that room.
JoinChat(s, c) ==
  /\ sockets[s].user # "none"
  /\ sockets' = [sockets EXCEPT ![s].rooms = @ \cup {chatRoom(c)}]
  /\ SocketEmit(s, sockets', Event(chatRoom(c), "user_online", c, 0, sockets[s].user))
  /\ UNCHANGED <<activeUsers, now, approved, appliedCreators, campaigns, chats, messages, nextOid,
                 pc, req, loc, resp>>

\* socket.on("leave_chat"): the socket leaves chat_<chatId> and user_offline
\* is emitted to that room.
LeaveChat(s, c) ==
  /\ sockets[s].user # "none"
  /\ sockets' = [sockets EXCEPT ![s].rooms = @ \ {chatRoom(c)}]
  /\ SocketEmit(s, sockets', Event(chatRoom(c), "user_offline", c, 0, sockets[s].user))
  /\ UNCHANGED <<activeUsers, now, approved, appliedCreators, campaigns, chats, messages, nextOid,
                 pc, req, loc, resp>>

\* socket.on("typing_start"): user_typing is emitted to the others in
\* chat_<chatId>.
TypingStart(s, c) ==
  /\ sockets[s].user # "none"
  /\ SocketEmit(s, sockets, Event(chatRoom(c), "user_typing", c, 0, sockets[s].user))
  /\ UNCHANGED <<activeUsers, sockets, now, approved, appliedCreators, campaigns, chats, messages, nextOid,
                 pc, req, loc, resp>>

\* socket.on("typing_stop"): user_stopped_typing is emitted to the others in
\* chat_<chatId>.
TypingStop(s, c) ==
  /\ sockets[s].user # "none"
  /\ SocketEmit(s, sockets, Event(chatRoom(c), "user_stopped_typing", c, 0, sockets[s].user))
  /\ UNCHANGED <<activeUsers, sockets, now, approved, appliedCreators, campaigns, chats, messages, nextOid,
                 pc, req, loc, resp>>

\* socket.on("message_read"): message_read_receipt is emitted to the others
\* in chat_<chatId>; nothing is read or written in the database.
MessageRead(s, c, m) ==
  /\ sockets[s].user # "none"
  /\ SocketEmit(s, sockets, Event(chatRoom(c), "message_read_receipt", c, m, sockets[s].user))
  /\ UNCHANGED <<activeUsers, sockets, now, approved, appliedCreators, campaigns, chats, messages, nextOid,
                 pc, req, loc, resp>>

\* socket.on("update_status"): when the user has an entry in activeUsers the
\* status is stored in it and user_status_update is broadcast to every other
\* socket; without an entry nothing happens.
UpdateStatus(s, st) ==
  /\ sockets[s].user # "none"
  /\ IF activeUsers[sockets[s].user].socket # 0
       THEN /\ activeUsers' = [activeUsers EXCEPT ![sockets[s].user].status = st]
            /\ SocketEmit(s, sockets, Event(allRoom, "user_status_update", 0, 0, sockets[s].user))
     ELSE UNCHANGED <<activeUsers, emitted, inbox>>
  /\ UNCHANGED <<sockets, now, approved, appliedCreators, campaigns, chats, messages, nextOid,
                 pc, req, loc, resp>>

\* socket.on("disconnect"): the user's entry of activeUsers is deleted and
\* user_offline is broadcast to every other socket; the socket is gone, with
\* its rooms and what it had received.
Disconnect(s) ==
  /\ sockets[s].user # "none"
  /\ activeUsers' = [activeUsers EXCEPT ![sockets[s].user] = NoEntry]
  /\ sockets' = [sockets EXCEPT ![s] = NoSocket]
  /\ LET e == Event(allRoom, "user_offline", 0, 0, sockets[s].user)
     IN /\ emitted' = emitted \cup {e}
        /\ inbox' = [publish(sockets', {e}, s) EXCEPT ![s] = {}]
  /\ UNCHANGED <<now, approved, appliedCreators, campaigns, chats, messages, nextOid, pc, req, loc, resp>>


(* --------------------------- specifications ---------------------------- *)
\* Contents a caller may give: empty, whitespace only, padded text of the
\* greatest valid length, and text one character too long.
InitiateInputs == {EmptyStr, Str(1, 0, 1), Str(1, 2000, 1), Str(0, 2001, 0)}
SendInputs == {EmptyStr, Str(1, 0, 1), Str(1, 2000, 1), Str(0, 2001, 0)}

\* The callers of the requests: the participants of the chat of b1 and k1,
\* the brand and a creator outside it, and the callers of the initiate route.
Participants == {"b1", "k1"}
BrandAndOutsider == {"b1", "k2"}
InitiateCallers == {"b1", "b2", "k1"}

\* Contents of a first message or of a message: none and a padded text of
\* the greatest valid length; with a blank one.
Contents == {EmptyStr, Str(1, 2000, 1)}
BlankContents == {EmptyStr, Str(1, 0, 0), Str(1, 2000, 1)}

\* req.body.offerDetails: absent or given.
OfferDetails == {FALSE, TRUE}

\* Bodies of PATCH /api/chats/:chatId/status: status and recruitmentStatus,
\* each absent ("none"), of its enum, or outside it ("paused", "hired").
StatusInputs == {"none", "blocked", "paused"}
RecruitmentInputs == {"none", "offer_sent", "hired"}
ClockStatusInputs == {"none", "archived", "active"}
ClockRecruitmentInputs == {"none", "offer_sent"}
GraphRecruitmentInputs == {"none", "completed", "declined", "hired"}

\* The chat lifecycle: initiate requests of two brands and a creator, two at
\* a time, and the applications of both creators.  No timestamp is read by
\* the properties checked here, and the clock stands still.
NextInitiate ==
  \/ ApplyStart("p1", Creators, Campaigns)
  \/ ApplyStep("p1")
  \/ \E p \in Procs : InitiateStart(p, InitiateCallers, Campaigns, InitiateInputs)
  \/ \E p \in Procs : InitiateStep(p)

SpecInitiate == Init /\ [][NextInitiate]_vars

\* The send pipeline on the chat of b1 and k1: two requests at a time, with
\* the clock running.
Next ==
  \/ Tick
  \/ ApplyStart("p1", {"k1"}, Campaigns)
  \/ ApplyStep("p1")
  \/ \E p \in Procs : InitiateStart(p, {"b1"}, Campaigns, Contents)
  \/ \E p \in Procs : InitiateStep(p)
  \/ \E p \in Procs : SendStart(p, Participants, {1}, SendInputs, {"text"}, {FALSE})
  \/ \E p \in Procs : SendStep(p)

Spec == Init /\ [][Next]_vars

\* Read receipts of k1 on the chat of b1 and k1: two requests at a time, with
\* the clock running.
NextRead ==
  \/ Tick
  \/ ApplyStart("p1", {"k1"}, Campaigns)
  \/ ApplyStep("p1")
  \/ \E p \in Procs : InitiateStart(p, {"b1"}, Campaigns, Contents)
  \/ \E p \in Procs : InitiateStep(p)
  \/ \E p \in Procs : ReadStart(p, {"k1"}, {1}, MsgIds)
  \/ \E p \in Procs : ReadStep(p)
  \/ \E p \in Procs : ReadAllStart(p, {"k1"}, {1})
  \/ \E p \in Procs : ReadAllStep(p)

SpecRead == Init /\ [][NextRead]_vars

\* Status changes against the rest of the pipeline: p2 carries the status
\* requests of either participant, p1 every other request, so that a status
\* change can land between any two steps of another request.
NextStatus ==
  \/ ApplyStart("p1", {"k1"}, Campaigns)
  \/ ApplyStep("p1")
  \/ InitiateStart("p1", {"b1"}, Campaigns, Contents)
  \/ InitiateStep("p1")
  \/ SendStart("p1", Participants, {1}, BlankContents, {"text"}, {FALSE})
  \/ SendStep("p1")
  \/ ReadStart("p1", {"k1"}, {1}, {1})
  \/ ReadStep("p1")
  \/ ReadAllStart("p1", {"k1"}, {1})
  \/ ReadAllStep("p1")
  \/ ListStart("p1", {"k1"}, {1}, {1}, {2})
  \/ ListStep("p1")
  \/ StatusStart("p2", Participants, {1}, ChatStatuses, {"none"})
  \/ StatusStep("p2")

SpecStatus == Init /\ [][NextStatus]_vars

\* Bodies of PUT /api/campaigns/:id: an end date, a status, a status outside
\* the enum, and an empty name.
OwnerPatches ==
  {[NoPatch EXCEPT !.fields = {"endDate"}, !.endDate = 0],
   [NoPatch EXCEPT !.fields = {"status"}, !.status = "draft"],
   [NoPatch EXCEPT !.fields = {"status"}, !.status = "paused"],
   [NoPatch EXCEPT !.fields = {"name"}, !.name = EmptyStr]}

\* The requests of one client, one after another, with the clock running:
\* the initiate and read routes, on a campaign that its owner updates and
\* deletes and that creators apply to and withdraw from, with and without
\* the role the route asks for.
NextRepeat ==
  \/ Tick
  \/ ApplyStart("p1", Participants, Campaigns)
  \/ ApplyStep("p1")
  \/ UnapplyStart("p1", Participants, Campaigns)
  \/ UnapplyStep("p1")
  \/ UpdateCampaignStart("p1", Participants, Campaigns, OwnerPatches)
  \/ UpdateCampaignStep("p1")
  \/ DeleteCampaignStart("p1", Participants, Campaigns)
  \/ DeleteCampaignStep("p1")
  \/ InitiateStart("p1", {"b1"}, Campaigns, Contents)
  \/ InitiateStep("p1")
  \/ ReadStart("p1", Participants, {1}, MsgIds)
  \/ ReadStep("p1")

SpecRepeat == Init /\ [][NextRepeat]_vars


\* The whole router driven by one client, one request after another:
\* requests of the participants b1 and k1 and of the outsider k2, with and
\* without valid input.  No timestamp is read by the properties checked
\* here, and the clock stands still.
NextOne ==
  \/ ApplyStart("p1", {"k1"}, Campaigns)
  \/ ApplyStep("p1")
  \/ InitiateStart("p1", {"b1"}, Campaigns, Contents)
  \/ InitiateStep("p1")
  \/ SendStart("p1", BrandAndOutsider, {1}, Contents,
               MessageTypes, OfferDetails)
  \/ SendStep("p1")
  \/ ReadStart("p1", Creators, {1}, {1})
  \/ ReadStep("p1")
  \/ ReadAllStart("p1", Creators, {1})
  \/ ReadAllStep("p1")
  \/ StatusStart("p1", BrandAndOutsider, {1}, StatusInputs,
                 RecruitmentInputs)
  \/ StatusStep("p1")
  \/ ListStart("p1", Creators, {1}, {1}, {2})
  \/ ListStep("p1")

SpecOne == Init /\ [][NextOne]_vars

\* Sends, status changes and paged reads of one client, one request after
\* another, with the clock running.
NextClock ==
  \/ Tick
  \/ ApplyStart("p1", {"k1"}, Campaigns)
  \/ ApplyStep("p1")
  \/ InitiateStart("p1", {"b1"}, Campaigns, Contents)
  \/ InitiateStep("p1")
  \/ SendStart("p1", {"b1"}, {1}, {Str(1, 2000, 1)}, {"text"}, {FALSE})
  \/ SendStep("p1")
  \/ StatusStart("p1", {"k1"}, {1}, ClockStatusInputs, ClockRecruitmentInputs)
  \/ StatusStep("p1")
  \/ ListStart("p1", {"k1"}, {1}, 1..3, 1..2)
  \/ ListStep("p1")

SpecClock == Init /\ [][NextClock]_vars


\* Reads against sends on the chat of b1 and k1: p1 carries the initiate
\* request and the read requests of k1, p2 the sends of b1 and the list
\* requests of k1, so that each can land between two steps of the other.
NextUnread ==
  \/ ApplyStart("p1", {"k1"}, Campaigns)
  \/ ApplyStep("p1")
  \/ InitiateStart("p1", {"b1"}, Campaigns, Contents)
  \/ InitiateStep("p1")
  \/ ReadStart("p1", {"k1"}, {1}, {1})
  \/ ReadStep("p1")
  \/ ReadAllStart("p1", {"k1"}, {1})
  \/ ReadAllStep("p1")
  \/ SendStart("p2", {"b1"}, {1}, {Str(1, 2000, 1)}, {"text"}, {FALSE})
  \/ SendStep("p2")
  \/ ListStart("p2", {"k1"}, {1}, {1}, {2})
  \/ ListStep("p2")

SpecUnread == Init /\ [][NextUnread]_vars


\* The send and read routes of one client against the sockets of b1 (socket
\* 1) and k1 (socket 2), which connect, join and leave the chat room,
\* announce reads and disconnect at any moment of a request.
NextSocket ==
  \/ ApplyStart("p1", {"k1"}, Campaigns)
  \/ ApplyStep("p1")
  \/ InitiateStart("p1", {"b1"}, Campaigns, Contents)
  \/ InitiateStep("p1")
  \/ SendStart("p1", {"b1"}, {1}, {Str(1, 2000, 1)}, {"text"}, {FALSE})
  \/ SendStep("p1")
  \/ ReadStart("p1", {"k1"}, {1}, {1})
  \/ ReadStep("p1")
  \/ Connect(1, "b1")
  \/ Connect(2, "k1")
  \/ \E s \in SocketIds : Disconnect(s)
  \/ JoinChat(2, 1)
  \/ LeaveChat(2, 1)
  \/ MessageRead(2, 1, 1)

SpecSocket == Init /\ [][NextSocket]_vars


\* Status requests of both participants on the chat of b1 and k1: p1 carries
\* the initiate request and the requests of b1, valid and not, p2 the
\* requests of k1 with every value of both enums.
NextGraph ==
  \/ ApplyStart("p1", {"k1"}, Campaigns)
  \/ ApplyStep("p1")
  \/ InitiateStart("p1", {"b1"}, Campaigns, Contents)
  \/ InitiateStep("p1")
  \/ StatusStart("p1", {"b1"}, {1}, StatusInputs,
                 GraphRecruitmentInputs)
  \/ StatusStep("p1")
  \/ StatusStart("p2", {"k1"}, {1}, ChatStatuses \cup {"none"}, RecruitmentStatuses \cup {"none"})
  \/ StatusStep("p2")

SpecGraph == Init /\ [][NextGraph]_vars

\* The connection registry: the sockets of k1 (two tabs) and of b2, which
\* connect, join and leave the room of chat 1, set a status and disconnect.
NextPresence ==
  \/ \E s \in {1, 2} : Connect(s, "k1")
  \/ Connect(2, "b2")
  \/ \E s \in SocketIds : Disconnect(s)
  \/ \E s \in {1, 2} : JoinChat(s, 1)
  \/ \E s \in {1, 2} : LeaveChat(s, 1)
  \/ UpdateStatus(1, "away")

SpecPresence == Init /\ [][NextPresence]_vars

\* The rooms: the chat of b1 and k1 with the send route, the socket of the
\* participant k1 (socket 1) and the socket of the outsider k2 (socket 2),
\* which join the room of the chat, type and announce reads.
NextRooms ==
  \/ ApplyStart("p1", {"k1"}, Campaigns)
  \/ ApplyStep("p1")
  \/ InitiateStart("p1", {"b1"}, Campaigns, Contents)
  \/ InitiateStep("p1")
  \/ SendStart("p1", {"b1"}, {1}, {Str(1, 2000, 1)}, {"text"}, {FALSE})
  \/ SendStep("p1")
  \/ Connect(1, "k1")
  \/ Connect(2, "k2")
  \/ Disconnect(2)
  \/ \E s \in {1, 2} : JoinChat(s, 1)
  \/ TypingStart(2, 1)
  \/ TypingStop(2, 1)
  \/ MessageRead(2, 1, 1)

SpecRooms == Init /\ [][NextRooms]_vars

\* Bodies of PUT /api/campaigns/:id: a name that makes the system message
\* one character too long (4 + 32 + 1965), another owner, and another list
\* of applications.
CampaignPatches ==
  {[NoPatch EXCEPT !.fields = {"name"}, !.name = Str(0, 1965, 0)],
   [NoPatch EXCEPT !.fields = {"brand"}, !.brand = "b2"],
   [NoPatch EXCEPT !.fields = {"appliedCreators"}, !.appliedCreators = <<"k2">>]}

\* The initiate route against the routes that change what it checks: p1
\* carries the initiate requests of b1 and the applications of k1, p2
\* the applications of k1, the updates and the deletion of the campaign by
\* b1, while an admin sets the status of k1.
NextCampaign ==
  \/ ApplyStart("p1", {"k1"}, Campaigns)
  \/ ApplyStep("p1")
  \/ InitiateStart("p1", {"b1"}, Campaigns, {Str(1, 2000, 1)})
  \/ InitiateStep("p1")
  \/ ApplyStart("p2", {"k1"}, Campaigns)
  \/ ApplyStep("p2")
  \/ UnapplyStart("p2", {"k1"}, Campaigns)
  \/ UnapplyStep("p2")
  \/ UpdateCampaignStart("p2", {"b1"}, Campaigns, CampaignPatches)
  \/ UpdateCampaignStep("p2")
  \/ DeleteCampaignStart("p2", {"b1"}, Campaigns)
  \/ DeleteCampaignStep("p2")
  \/ ApproveCreator("k1")
  \/ RejectCreator("k1")
  \/ \E action \in {"approve", "reject", "pending"} : BulkAction("k1", action)
  \/ \E st \in {"pending", "approved", "rejected"} : UserStatus("k1", st)

SpecCampaign == Init /\ [][NextCampaign]_vars

(* ------------------------------- claims -------------------------------- *)
\* p makes a step of its handler in this transition.
Steps(p) == pc'[p] # pc[p] \/ req'[p] # req[p]
\* p's request ends in this transition.
Completes(p) == pc'[p] = "done" /\ Steps(p)

sameTriple(p, q) ==
  /\ req[p].op = "initiate" /\ req[q].op = "initiate"
  /\ req[p].user = req[q].user
  /\ req[p].campaign = req[q].campaign
  /\ req[p].creator = req[q].creator

\* The chats of a campaign between two given identities.
chatsOfPair(c, a, b) ==
  {i \in DOMAIN chats : chats[i].campaign = c /\ Range(chats[i].participants) = {a, b}}

\* C1: in every reachable state, whatever the interleaving of initiate
\* requests, at most one chat exists for a campaign and an unordered pair of
\* participants.
C1_OneChatPerPair ==
  \A i, j \in DOMAIN chats :
    (chats[i].campaign = chats[j].campaign
     /\ Range(chats[i].participants) = Range(chats[j].participants)) => i = j

\* Two requests for the same triple both passed the existence check; one
\* inserted the chat and the other was refused by the index.
C1_Witness ==
  \E p, q \in Procs :
    /\ p # q /\ sameTriple(p, q)
    /\ pc[p] = "done" /\ resp[p].status = 500 /\ req[p].content = EmptyStr
    /\ pc[q] = "done" /\ resp[q].status = 201
    /\ Cardinality(chatsOfPair(req[p].campaign, req[p].user, req[p].creator)) = 1


\* p's request ends in this transition with the given error and nothing is
\* persisted or published by the transition.
FailsWith(p, st, err) ==
  /\ pc'[p] = "done"
  /\ resp'[p].status = st /\ resp'[p].error = err
  /\ chats' = chats /\ messages' = messages /\ emitted' = emitted

\* C5: once a request for a triple has succeeded, a request for the same
\* triple that reaches the existence check ends with "Chat already exists"
\* carrying the id the first one returned, and creates no chat, no message
\* and no event.
C5_RepeatStep ==
  \A p, q \in Procs :
    (/\ p # q /\ sameTriple(p, q)
     /\ pc[q] = "done" /\ resp[q].status = 201
     /\ pc[p] = "init_findChat" /\ Steps(p))
    => (FailsWith(p, 400, "Chat already exists") /\ resp'[p].chatId = resp[q].chatId)

C5_RepeatIsConflict == [][C5_RepeatStep]_vars

\* Both calls are over: the first returned 201 and the second the same id.
C5_Witness ==
  \E p, q \in Procs :
    /\ p # q /\ sameTriple(p, q)
    /\ pc[q] = "done" /\ resp[q].status = 201
    /\ pc[p] = "done" /\ resp[p].error = "Chat already exists"
    /\ resp[p].chatId = resp[q].chatId
    /\ Len(chats) = 1

\* C7: a request of the campaign's owner passes the applied check only if the
\* creator is in appliedCreators when the campaign is loaded; otherwise it
\* ends with "Creator has not applied to this campaign" and persists and
\* publishes nothing.  Chats are inserted only by requests that passed it.
C7_AppliedStep ==
  /\ \A p \in Procs :
       (/\ pc[p] = "init_findCampaign" /\ Steps(p)
        /\ campaignBrand(req[p].campaign) = req[p].user)
       => IF req[p].creator \in Range(appliedCreators[req[p].campaign])
            THEN pc'[p] = "init_findCreator"
          ELSE FailsWith(p, 400, "Creator has not applied to this campaign")
  /\ chats' # chats => \E p \in Procs : pc[p] \in {"init_saveChat", "init_saveChat2"}
  /\ \A p \in Procs :
       (Steps(p) /\ pc'[p] \in {"init_findCreator", "init_findChat", "init_saveChat"})
       => pc[p] \in {"init_findCampaign", "init_findCreator", "init_findChat"}

C7_AppliedOnly == [][C7_AppliedStep]_vars

\* The owner's request for a creator who has not applied has been refused,
\* and nothing exists.
C7_Witness ==
  \E p \in Procs :
    /\ pc[p] = "done" /\ req[p].op = "initiate"
    /\ resp[p].error = "Creator has not applied to this campaign"
    /\ req[p].creator \notin Range(appliedCreators[req[p].campaign])
    /\ chats = <<>> /\ messages = <<>> /\ emitted = {}

\* C8: the preconditions are checked in the order owner, applied, approved,
\* no existing chat, each on the documents as they are when it is made; the
\* error reported is that of the first check that fails, and a failing check
\* persists nothing.
C8_Step ==
  \A p \in Procs :
    (Steps(p) /\ pc[p] \in {"init_findCampaign", "init_findCreator", "init_findChat"})
    => LET owner == campaignBrand(req[p].campaign) = req[p].user
           applied == req[p].creator \in Range(appliedCreators[req[p].campaign])
           standing == req[p].creator \in approved
           exists == chatsOfPair(req[p].campaign, req[p].user, req[p].creator) # {}
       IN CASE pc[p] = "init_findCampaign" ->
                 IF ~owner THEN FailsWith(p, 404, "Campaign not found or access denied")
                 ELSE IF ~applied
                   THEN FailsWith(p, 400, "Creator has not applied to this campaign")
                 ELSE pc'[p] = "init_findCreator"
            [] pc[p] = "init_findCreator" ->
                 IF ~standing THEN FailsWith(p, 404, "Creator not found")
                 ELSE pc'[p] = "init_findChat"
            [] pc[p] = "init_findChat" ->
                 IF exists THEN FailsWith(p, 400, "Chat already exists")
                 ELSE pc'[p] = "init_saveChat" /\ chats' = chats /\ messages' = messages

\* The checks are reached in that order only: a request comes to a check
\* from the check before it.
C8_Order ==
  \A p \in Procs :
    (Steps(p) /\ req'[p].op = "initiate")
    => /\ pc'[p] = "init_findCampaign" => free(p)
       /\ pc'[p] = "init_findCreator" => pc[p] = "init_findCampaign"
       /\ pc'[p] = "init_findChat" => pc[p] = "init_findCreator"
       /\ pc'[p] = "init_saveChat" => pc[p] = "init_findChat"

C8_CheckOrder == [][C8_Step /\ C8_Order]_vars

\* The first of three failing checks was reported: the requester does not
\* own the campaign, and the creator has neither applied nor been approved.
C8_Witness ==
  \E p \in Procs :
    /\ pc[p] = "done" /\ req[p].op = "initiate"
    /\ resp[p].status = 404 /\ resp[p].error = "Campaign not found or access denied"
    /\ req[p].creator \notin Range(appliedCreators[req[p].campaign])
    /\ req[p].creator \notin approved
    /\ chats = <<>> /\ messages = <<>>

\* C9: when an initiate request has returned 201, its chat is active and
\* discussing and holds one system message, of type chat_started; it holds
\* one text message of the requester besides exactly if the initial message
\* is non-empty after trimming; lastMessage is the text message if there is
\* one and the system message otherwise.
C9_InitiateResult ==
  \A p \in Procs :
    (pc[p] = "done" /\ req[p].op = "initiate" /\ resp[p].status = 201)
    => LET c == resp[p].chatId
           all == chatMessages(c)
           sys == {m \in all : messages[m].messageType = "system"}
           txt == {m \in all : messages[m].messageType = "text"
                               /\ messages[m].sender = req[p].user}
           given == trim(req[p].content).body > 0
       IN /\ c \in DOMAIN chats
          /\ chats[c].status = "active"
          /\ chats[c].recruitmentStatus = "discussing"
          /\ Cardinality(sys) = 1
          /\ \A m \in sys : messages[m].systemMessageType = "chat_started"
          /\ Cardinality(txt) = (IF given THEN 1 ELSE 0)
          /\ all = sys \cup txt
          /\ chats[c].lastMessage \in (IF given THEN txt ELSE sys)

\* An initiate request with a padded initial message has returned 201.
C9_Witness ==
  \E p \in Procs :
    /\ pc[p] = "done" /\ req[p].op = "initiate" /\ resp[p].status = 201
    /\ req[p].content = Str(1, 2000, 1)
    /\ Cardinality(chatMessages(resp[p].chatId)) = 2
    /\ chats[resp[p].chatId].lastMessage = 2


\* The entries of reader u in the readBy array of message m.
receiptsOf(m, u) == {i \in DOMAIN messages[m].readBy : messages[m].readBy[i].user = u}

\* Position of message m in a returned page, 0 when it is not in it.
indexIn(page, m) ==
  IF \E i \in DOMAIN page : page[i] = m
    THEN CHOOSE i \in DOMAIN page : page[i] = m
  ELSE 0

\* C2: when two send requests on one chat have both returned, and the
\* message of the first was created strictly before the message of the
\* second, the chat's lastMessage is the second message and the message list
\* shows the first before the second.
C2_LastMessageIsLatest ==
  \A p, q \in Procs :
    (/\ p # q
     /\ pc[p] = "done" /\ req[p].op = "send" /\ resp[p].status = 201
     /\ pc[q] = "done" /\ req[q].op = "send" /\ resp[q].status = 201
     /\ req[p].chat = req[q].chat
     /\ messages[resp[p].msgId].createdAt < messages[resp[q].msgId].createdAt)
    => /\ chats[req[p].chat].lastMessage = resp[q].msgId
       /\ \A s \in sortedNewestFirst(req[p].chat) :
            LET page == reverse(skipLimit(s, 0, MaxPageSize))
            IN indexIn(page, resp[p].msgId) < indexIn(page, resp[q].msgId)

\* C3: a markRead request of a reader who is not the sender, on a message
\* that holds one readBy entry of that reader from an earlier markRead
\* request (the requests of SpecRepeat run one after another), returns 200
\* and leaves the readBy array as it was: one entry, readAt unchanged.
C3_RepeatStep ==
  \A p \in Procs :
    (/\ pc[p] = "read_update" /\ Steps(p)
     /\ readFilter(req[p].msg, req[p].chat, req[p].user)
     /\ Cardinality(receiptsOf(req[p].msg, req[p].user)) = 1)
    => /\ resp'[p].status = 200
       /\ messages'[req[p].msg].readBy = messages[req[p].msg].readBy

C3_MarkReadIdempotent == [][C3_RepeatStep]_vars

\* C4: when a reader has a markRead request that returned 200 and a
\* markAllRead request on the same chat, the message holds at most one
\* readBy entry of that reader.
C4_NoDuplicateReceipts ==
  \A p, q \in Procs :
    (/\ pc[p] = "done" /\ req[p].op = "markRead" /\ resp[p].status = 200
     /\ req[q].op = "markAllRead" /\ pc[q] \in {"readAll_update", "done"}
     /\ req[q].user = req[p].user /\ req[q].chat = req[p].chat)
    => Cardinality(receiptsOf(req[p].msg, req[p].user)) <= 1

\* p's step belongs to a send request of a participant of a chat that is
\* blocked or archived, and the request has not passed the lookup of the
\* chat: the step is its arrival or the lookup itself.
subsequentSend(p) ==
  /\ Steps(p) /\ req'[p].op = "send"
  /\ free(p) \/ pc[p] = "send_findChat"
  /\ isParticipant(req'[p].chat, req'[p].user)
  /\ chats[req'[p].chat].status # "active"

\* C6 as stated: a send request of a participant issued while the chat is
\* blocked or archived ends with "Chat not found or inactive" and persists
\* nothing.
C6_RefusedStep ==
  \A p \in Procs :
    (subsequentSend(p) /\ pc'[p] = "done")
    => FailsWith(p, 404, "Chat not found or inactive")

C6_AlwaysInvalidState == [][C6_RefusedStep]_vars

\* C6 as amended: a send request of a participant that arrives while the
\* chat is blocked or archived ends there with 400 "Message content is
\* required" when its content is empty or blank, and goes on to the lookup
\* otherwise; at the lookup it ends with "Chat not found or inactive"; no
\* step of it persists or publishes anything.  A list, markRead or
\* markAllRead request of a participant that runs while the chat is blocked
\* or archived does not fail.
C6_Step ==
  \A p \in Procs :
    /\ subsequentSend(p)
       => /\ chats' = chats /\ messages' = messages /\ emitted' = emitted
          /\ IF pc[p] = "send_findChat"
               THEN FailsWith(p, 404, "Chat not found or inactive")
             ELSE IF ~truthy(req'[p].content) \/ trim(req'[p].content) = EmptyStr
               THEN FailsWith(p, 400, "Message content is required")
             ELSE pc'[p] = "send_findChat"
    /\ (/\ Steps(p) /\ pc[p] \notin {"idle", "done"}
        /\ isParticipant(req[p].chat, req[p].user)
        /\ chats[req[p].chat].status # "active")
       => /\ (req[p].op \in {"listMessages", "markAllRead"} /\ pc'[p] = "done")
               => resp'[p].status = 200
          /\ (req[p].op = "markRead" /\ pc'[p] = "done"
              /\ req[p].msg \in chatMessages(req[p].chat)
              /\ messages[req[p].msg].sender # req[p].user)
               => resp'[p].status = 200 /\ messages'[req[p].msg].status = "read"
          /\ (req[p].op \in {"listMessages", "markAllRead", "markRead"}
              /\ pc[p] \in {"list_findChat", "readAll_findChat", "read_findChat"})
               => pc'[p] # "done"

C6_InactiveBlocksSend == [][C6_Step]_vars

\* The chat is blocked and a participant's send that arrived with content
\* after the block has been refused at the lookup.
C6_Witness ==
  \E p \in Procs :
    /\ pc[p] = "done" /\ req[p].op = "send"
    /\ resp[p].status = 404 /\ resp[p].error = "Chat not found or inactive"
    /\ isParticipant(req[p].chat, req[p].user)
    /\ chats[req[p].chat].status = "blocked"
    /\ \A m \in DOMAIN messages : messages[m].messageType = "system"

\* C10: a send request of a participant of an active chat whose content is
\* empty after trimming, or longer than 2000 characters once trimmed, ends
\* with a 400 validation error, persists no message and leaves the chat
\* (lastMessage and lastActivity included) unchanged.
C10_Step ==
  \A p \in Procs :
    (/\ Completes(p) /\ req'[p].op = "send"
     /\ (trim(req'[p].content).body = 0 \/ trim(req'[p].content).body > MaxContentLen)
     /\ isParticipant(req'[p].chat, req'[p].user)
     /\ chats[req'[p].chat].status = "active")
    => /\ resp'[p].status = 400
       /\ messages' = messages
       /\ chats' = chats

C10_InvalidContentRejected == [][C10_Step]_vars

\* C11: a send request of kind offer that carries no offer details inserts
\* no message and does not return 201.
C11_Step ==
  \A p \in Procs :
    (Steps(p) /\ req'[p].op = "send" /\ req'[p].mtype = "offer" /\ ~req'[p].offer)
    => (messages' = messages /\ resp'[p].status # 201)

C11_OfferNeedsPayload == [][C11_Step]_vars

\* The requests on a chat and the steps at which they look the chat up.
ChatOps == {"send", "listMessages", "markRead", "markAllRead", "setStatus"}
LookupPcs == {"send_findChat", "list_findChat", "read_findChat", "readAll_findChat",
              "status_findChat"}

\* p's step belongs to a request on an existing chat by a user who is not
\* one of its participants.
outsiderStep(p) ==
  /\ Steps(p) /\ req'[p].op \in ChatOps
  /\ req'[p].chat \in DOMAIN chats
  /\ req'[p].user \notin Range(chats[req'[p].chat].participants)

\* C12 as stated: every request on a chat by a non-participant ends with the
\* response of the failed participant lookup, returns no message and
\* changes no chat and no message.
C12_ForbiddenStep ==
  \A p \in Procs :
    (outsiderStep(p) /\ pc'[p] = "done")
    => /\ resp'[p].status = 404
       /\ resp'[p].error \in {"Chat not found", "Chat not found or inactive"}
       /\ resp'[p].msgs = <<>>
       /\ chats' = chats /\ messages' = messages

C12_AlwaysForbidden == [][C12_ForbiddenStep]_vars

\* The input check a request makes before it looks the chat up has failed.
inputRejected(r) ==
  \/ r.op = "send" /\ (~truthy(r.content) \/ trim(r.content) = EmptyStr)
  \/ /\ r.op = "setStatus"
     /\ \/ r.status # "none" /\ r.status \notin ChatStatuses
        \/ r.rstatus # "none" /\ r.rstatus \notin RecruitmentStatuses

\* C12 as amended: a request on a chat by a non-participant changes and
\* publishes nothing and returns no message; it ends at the participant
\* lookup with 404 "Chat not found" ("Chat not found or inactive" for send),
\* unless the input check made before the lookup has already ended it with
\* 400 (empty content, a connection status or a recruitment status outside
\* its enum).
C12_Step ==
  \A p \in Procs :
    outsiderStep(p)
    => /\ chats' = chats /\ messages' = messages /\ emitted' = emitted
       /\ IF pc[p] \in LookupPcs
            THEN /\ pc'[p] = "done"
                 /\ resp'[p].status = 404
                 /\ resp'[p].error = (IF req[p].op = "send" THEN "Chat not found or inactive"
                                      ELSE "Chat not found")
                 /\ resp'[p].msgs = <<>> /\ resp'[p].msgId = 0
          ELSE /\ free(p)
               /\ IF inputRejected(req'[p])
                    THEN /\ pc'[p] = "done" /\ resp'[p].status = 400
                         /\ resp'[p].msgs = <<>> /\ resp'[p].msgId = 0
                  ELSE pc'[p] \in LookupPcs

C12_OutsiderFails == [][C12_Step]_vars

\* The outsider's request to set the recruitment status of a chat that holds
\* messages was refused at the lookup, and the status is the one the chat
\* was created with.
C12_Witness ==
  \E p \in Procs :
    /\ pc[p] = "done" /\ req[p].op = "setStatus"
    /\ req[p].status = "none" /\ req[p].rstatus = "offer_sent"
    /\ req[p].chat \in DOMAIN chats
    /\ req[p].user \notin Range(chats[req[p].chat].participants)
    /\ chatMessages(req[p].chat) # {}
    /\ resp[p].status = 404 /\ resp[p].error = "Chat not found" /\ resp[p].msgs = <<>>
    /\ chats[req[p].chat].recruitmentStatus = "discussing"

\* The page sizes the pagination is checked for.
PageLimits == {1, 2}

\* The pages k, k+1, ..., last one after the other, page j cut from the
\* query result f[j] of its own request.
RECURSIVE concatUp(_, _, _, _)
concatUp(f, limit, k, last) ==
  IF k > last THEN <<>> ELSE pageOf(f[k], k, limit) \o concatUp(f, limit, k + 1, last)

\* The pages k, k-1, ..., 1 one after the other.
RECURSIVE concatDown(_, _, _)
concatDown(f, limit, k) ==
  IF k = 0 THEN <<>> ELSE pageOf(f[k], k, limit) \o concatDown(f, limit, k - 1)

\* t lists the messages of chat c, each once, in creation order: by creation
\* time, and by insertion sequence among equal times.
isCreationOrder(c, t) ==
  /\ Len(t) = Cardinality(chatMessages(c))
  /\ Range(t) = chatMessages(c)
  /\ \A i, j \in DOMAIN t :
       i < j => \/ messages[t[i]].createdAt < messages[t[j]].createdAt
                \/ messages[t[i]].createdAt = messages[t[j]].createdAt /\ t[i] < t[j]

lastPage(c, limit) == totalPages(Cardinality(chatMessages(c)), limit)

\* C13: for every chat as it stands and every page size, the pages 1, 2,
\* ..., last, each cut from the result of its own query, are together the
\* messages of the chat in creation order, each once and none missing,
\* when put one after the other in page order or, page 1 being the most
\* recent block, from the last page down to the first.
C13_PagesReconstruct ==
  \A c \in DOMAIN chats : \A limit \in PageLimits :
    \A f \in [1..lastPage(c, limit) -> sortedNewestFirst(c)] :
      \/ isCreationOrder(c, concatUp(f, limit, 1, lastPage(c, limit)))
      \/ isCreationOrder(c, concatDown(f, limit, lastPage(c, limit)))

\* The messages of chat c by another sender than u inserted after the first n.
arrivedSince(c, u, n) ==
  {m \in DOMAIN messages : m > n /\ messages[m].chat = c /\ messages[m].sender # u}

\* C14 as stated: when a markAllRead request returns 200 the reader's unread
\* count of the chat is 0, and a count of 0 is left only by the insert of a
\* message of another participant.
C14_ZeroStep ==
  /\ \A p \in Procs :
       (Completes(p) /\ req[p].op = "markAllRead" /\ resp'[p].status = 200)
       => unreadCount(req[p].chat, req[p].user)' = 0
  /\ \A c \in DOMAIN chats : \A u \in Range(chats[c].participants) :
       (unreadCount(c, u) = 0 /\ unreadCount(c, u)' > 0)
       => \E m \in DOMAIN messages' :
            m > Len(messages) /\ messages'[m].chat = c /\ messages'[m].sender # u

C14_ZeroAfterReadAll == [][C14_ZeroStep]_vars

\* C14 as amended: when a markAllRead request returns 200 and no message of
\* another participant was inserted in the chat since its update was issued,
\* the reader's unread count of the chat is 0; a count of 0 is left only by
\* the insert of a message of another participant.
C14_Step ==
  /\ \A p \in Procs :
       (/\ Completes(p) /\ req[p].op = "markAllRead" /\ resp'[p].status = 200
        /\ arrivedSince(req[p].chat, req[p].user, loc[p].n0) = {})
       => unreadCount(req[p].chat, req[p].user)' = 0
  /\ \A c \in DOMAIN chats : \A u \in Range(chats[c].participants) :
       (unreadCount(c, u) = 0 /\ unreadCount(c, u)' > 0)
       => \E m \in DOMAIN messages' :
            m > Len(messages) /\ messages'[m].chat = c /\ messages'[m].sender # u

C14_ZeroUnlessArrived == [][C14_Step]_vars

\* k1's markAllRead has returned on a chat holding two messages of b1, both
\* read by it, and the count is 0.
C14_Witness ==
  \E p \in Procs :
    /\ pc[p] = "done" /\ req[p].op = "markAllRead" /\ resp[p].status = 200
    /\ Cardinality({m \in chatMessages(req[p].chat) :
                      messages[m].sender # req[p].user /\ messages[m].status = "read"
                      /\ receiptsOf(m, req[p].user) # {}}) = 2
    /\ unreadCount(req[p].chat, req[p].user) = 0

\* The update of p's markAllRead request has been applied to some but not
\* all of the messages it was issued for.
partlyApplied(p) ==
  /\ pc[p] = "readAll_update"
  /\ \E m, n \in chatMessages(req[p].chat) :
       /\ m <= loc[p].n0 /\ n <= loc[p].n0
       /\ messages[m].sender # req[p].user /\ messages[n].sender # req[p].user
       /\ \E i \in DOMAIN messages[m].readBy : messages[m].readBy[i].id = loc[p].oid
       /\ messages[n].status # "read"

\* C15: no list or markRead request reads the messages of a chat while the
\* update of a markAllRead request on that chat is partly applied.
C15_Step ==
  \A p, q \in Procs :
    (/\ p # q /\ Steps(q) /\ pc[q] \in {"list_find", "read_update"}
     /\ req[q].chat = req[p].chat)
    => ~partlyApplied(p)

C15_ReadAllAtomic == [][C15_Step]_vars

\* C16: for every chat, participant u and message of the chat not sent by
\* u, the status of the message is read exactly if readBy holds an entry of
\* u; the two unread counts are then equal.
C16_UnreadAgree ==
  \A c \in DOMAIN chats : \A u \in Range(chats[c].participants) :
    /\ \A m \in chatMessages(c) :
         messages[m].sender # u => (messages[m].status = "read" <=> receiptsOf(m, u) # {})
    /\ unreadCount(c, u)
         = Cardinality({m \in chatMessages(c) : messages[m].sender # u /\ receiptsOf(m, u) = {}})

\* One message of b1 is read by k1 and another is not yet.
C16_Witness ==
  \E m, n \in DOMAIN messages :
    /\ messages[m].chat = messages[n].chat
    /\ messages[m].sender = "b1" /\ messages[n].sender = "b1"
    /\ messages[m].status = "read" /\ receiptsOf(m, "k1") # {}
    /\ messages[n].status = "sent" /\ receiptsOf(n, "k1") = {}
    /\ unreadCount(messages[m].chat, "k1") = 1

\* C17: a send request that returns 201 has published new_message for its
\* message to the personal room of every other participant and to the room
\* of the chat, and not to the sender's personal room.
C17_Step ==
  \A p \in Procs :
    (Completes(p) /\ req[p].op = "send" /\ resp'[p].status = 201)
    => LET c == req[p].chat
           u == req[p].user
           m == resp'[p].msgId
       IN /\ \A o \in Range(chats[c].participants) \ {u} :
               Event(<<"user", o>>, "new_message", c, m, u) \in emitted'
          /\ Event(<<"user", u>>, "new_message", c, m, u) \notin emitted'
          /\ Event(<<"chat", c>>, "new_message", c, m, u) \in emitted'

C17_NewMessagePublished == [][C17_Step]_vars

\* C18: when a markRead request returns 200, message_read_receipt for its
\* message and reader has been published to the room of the chat.
C18_Step ==
  \A p \in Procs :
    (Completes(p) /\ req[p].op = "markRead" /\ resp'[p].status = 200)
    => Event(<<"chat", req[p].chat>>, "message_read_receipt", req[p].chat, req[p].msg,
             req[p].user) \in emitted'

C18_ReceiptPublished == [][C18_Step]_vars

\* C19: every step of a send request is determined by the request, the
\* chats, the messages and the clock alone, whichever sockets are connected
\* and whichever rooms they have joined: the content check, the lookup of the
\* active chat, the validation, the insert of the message, the update of the
\* chat and the 201.
C19_Step ==
  \A p \in Procs :
    (Steps(p) /\ req'[p].op = "send")
    => LET r == req'[p]
           kept == chats' = chats /\ messages' = messages
       IN CASE free(p) ->
                 /\ kept
                 /\ IF trim(r.content).body = 0
                      THEN pc'[p] = "done" /\ resp'[p] = Respond(400, "Message content is required")
                    ELSE pc'[p] = "send_findChat"
            [] pc[p] = "send_findChat" ->
                 /\ kept
                 /\ IF ~(r.chat \in DOMAIN chats /\ r.user \in Range(chats[r.chat].participants)
                         /\ chats[r.chat].status = "active")
                      THEN pc'[p] = "done" /\ resp'[p] = Respond(404, "Chat not found or inactive")
                    ELSE IF trim(r.content).body > MaxContentLen \/ r.mtype \notin MessageTypes
                      THEN pc'[p] = "done" /\ resp'[p] = Respond(500, "Server error")
                    ELSE pc'[p] = "send_saveMessage"
            [] pc[p] = "send_saveMessage" ->
                 /\ chats' = chats
                 /\ Len(messages') = Len(messages) + 1
                 /\ \A m \in DOMAIN messages : messages'[m] = messages[m]
                 /\ LET d == messages'[Len(messages')]
                    IN /\ d.chat = r.chat /\ d.sender = r.user /\ d.content = trim(r.content)
                       /\ d.messageType = r.mtype /\ d.status = "sent" /\ d.readBy = <<>>
                 /\ pc'[p] = "send_saveChat"
            [] pc[p] = "send_saveChat" ->
                 /\ messages' = messages
                 /\ chats' = [chats EXCEPT ![r.chat].lastMessage = loc[p].msg,
                                           ![r.chat].lastActivity =
                                              IF loc[p].t # loc[p].la THEN loc[p].t ELSE @]
                 /\ pc'[p] = "send_populate"
            [] pc[p] = "send_populate" ->
                 /\ kept
                 /\ pc'[p] = "done"
                 /\ resp'[p] = [Respond(201, "none") EXCEPT !.chatId = r.chat,
                                                           !.msgId = loc[p].msg]

C19_PresenceIndependent == [][C19_Step]_vars

\* A send has returned 201 and its message is stored although nobody is
\* connected: the sender's socket was connected and has gone.
C19_Witness ==
  \E p \in Procs :
    /\ pc[p] = "done" /\ req[p].op = "send" /\ resp[p].status = 201
    /\ resp[p].msgId \in chatMessages(req[p].chat)
    /\ chats[req[p].chat].lastMessage = resp[p].msgId
    /\ \A u \in Users : activeUsers[u] = NoEntry
    /\ \A s \in SocketIds : sockets[s] = NoSocket
    /\ Event(<<"all", 0>>, "user_offline", 0, 0, req[p].user) \in emitted

\* C20: the chat save of a send request sets lastActivity to the time the
\* handler read for it, and the update of a status request that changes
\* status or recruitmentStatus sets lastActivity to the time of the update.
C20_Step ==
  \A p \in Procs :
    /\ (Steps(p) /\ pc[p] = "send_saveChat")
         => chats'[req[p].chat].lastActivity = loc[p].t
    /\ (Steps(p) /\ pc[p] = "status_update"
        /\ (req[p].status # "none" \/ req[p].rstatus # "none"))
         => (resp'[p].status = 200 /\ chats'[req[p].chat].lastActivity = now)

C20_ActivityUpdated == [][C20_Step]_vars

\* C21: a status request of a participant with valid values never fails,
\* whatever status and recruitmentStatus the chat has: the lookup finds the
\* chat, and the update returns 200 and leaves the chat with exactly the
\* values given (a value not given is kept).
C21_Step ==
  \A p \in Procs :
    (/\ Steps(p) /\ req[p].op = "setStatus"
     /\ req[p].chat \in DOMAIN chats
     /\ req[p].user \in Range(chats[req[p].chat].participants))
    => LET c == req[p].chat
           st == req[p].status
           rs == req[p].rstatus
       IN /\ pc[p] = "status_findChat" => pc'[p] = "status_update"
          /\ pc[p] = "status_update" =>
               /\ pc'[p] = "done" /\ resp'[p].status = 200
               /\ chats'[c].status = (IF st = "none" THEN chats[c].status ELSE st)
               /\ chats'[c].recruitmentStatus
                    = (IF rs = "none" THEN chats[c].recruitmentStatus ELSE rs)

C21_AnyTransition == [][C21_Step]_vars

\* b1 blocked the chat and set it completed, and k1 then set it back to
\* active and discussing.
C21_Witness ==
  /\ pc["p1"] = "done" /\ req["p1"].op = "setStatus" /\ req["p1"].user = "b1"
  /\ req["p1"].status = "blocked" /\ req["p1"].rstatus = "completed"
  /\ resp["p1"].status = 200
  /\ pc["p2"] = "done" /\ req["p2"].op = "setStatus" /\ req["p2"].user = "k1"
  /\ req["p2"].status = "active" /\ req["p2"].rstatus = "discussing"
  /\ resp["p2"].status = 200
  /\ chats[1].status = "active" /\ chats[1].recruitmentStatus = "discussing"

\* C24: the insert of the chat by an initiate request is refused only when a
\* chat of the same campaign and the same pair exists; a request for a pair
\* that has no chat on the campaign inserts its chat, whichever other chats
\* the brand has on that campaign.
C24_Step ==
  \A p \in Procs :
    (/\ Steps(p) /\ pc[p] = "init_saveChat"
     /\ chatsOfPair(req[p].campaign, req[p].user, req[p].creator) = {})
    => /\ pc'[p] = "init_saveSystem"
       /\ Len(chats') = Len(chats) + 1
       /\ chatsOfPair(req[p].campaign, req[p].user, req[p].creator)' # {}

C24_DistinctPairs == [][C24_Step]_vars

\* C26: a send request inserts its message only while the status of its
\* chat is active.
C26_Step ==
  \A p \in Procs :
    (Steps(p) /\ pc[p] = "send_saveMessage" /\ Len(messages') = Len(messages) + 1)
    => chats[req[p].chat].status = "active"

C26_InsertedWhileActive == [][C26_Step]_vars

\* Every chat has its chat_started message, and its lastMessage is a message
\* of the chat.
chatComplete(c) ==
  /\ \E m \in chatMessages(c) : /\ messages[m].messageType = "system"
                                /\ messages[m].systemMessageType = "chat_started"
  /\ chats[c].lastMessage \in chatMessages(c)

\* C27: after every step, the steps of an initiate request and its failures
\* included, every chat has its chat_started message and a lastMessage that
\* is a message of the chat; and the final save of an initiate request keeps
\* a lastMessage that a send of the creator has set in the meantime.
C27_Step ==
  /\ \A c \in DOMAIN chats' : chatComplete(c)'
  /\ \A p \in Procs :
       (/\ Steps(p) /\ pc[p] = "init_saveChat2"
        /\ chats[loc[p].chat].lastMessage \in DOMAIN messages
        /\ messages[chats[loc[p].chat].lastMessage].sender = req[p].creator)
       => chats'[loc[p].chat].lastMessage = chats[loc[p].chat].lastMessage

C27_CreationIsOneUnit == [][C27_Step]_vars

\* C30: every message of type system has a systemMessageType and was
\* inserted by an initiate request: no step of a send request inserts a
\* message of type system.
C30_Step ==
  /\ \A m \in DOMAIN messages' :
       messages'[m].messageType = "system" => messages'[m].systemMessageType # "none"
  /\ \A p \in Procs :
       (Steps(p) /\ req[p].op = "send" /\ Len(messages') = Len(messages) + 1)
       => messages'[Len(messages')].messageType # "system"

C30_SystemOnlyBySystem == [][C30_Step]_vars

\* Socket s connects, or disconnects, in this transition.
connects(s) == sockets[s].user = "none" /\ sockets'[s].user # "none"
disconnects(s) == sockets[s].user # "none" /\ sockets'[s].user = "none"

\* The entries of the registry: pairs of a user and the socket registered
\* for it.
entries == {<<u, activeUsers[u].socket>> : u \in {v \in Users : activeUsers[v].socket # 0}}

\* C22: the registry holds at most one entry per user; a connection of a
\* user sets the user's entry to its socket, whether or not the user had one,
\* and touches no other entry; a disconnection deletes the entry of its user
\* and no other, and leaves the registry as it is when the user has none.
C22_Step ==
  /\ \A u \in Users : Cardinality({e \in entries' : e[1] = u}) <= 1
  /\ \A s \in SocketIds :
       /\ connects(s) => activeUsers' = [activeUsers EXCEPT ![sockets'[s].user] =
                                                           [socket |-> s, status |-> "none"]]
       /\ disconnects(s) =>
            /\ activeUsers' = [activeUsers EXCEPT ![sockets[s].user] = NoEntry]
            /\ activeUsers[sockets[s].user].socket = 0 => activeUsers' = activeUsers

C22_OneEntryPerUser == [][C22_Step]_vars

\* k1 is connected on both sockets; the second connection replaced the
\* entry of the first.
C22_Witness ==
  /\ sockets[1].user = "k1" /\ sockets[2].user = "k1"
  /\ activeUsers["k1"].socket = 2
  /\ entries = {<<"k1", 2>>}
  /\ Event(socketRoom(1), "connected", 0, 0, "k1") \in inbox[1]
  /\ Event(socketRoom(2), "connected", 0, 0, "k1") \in inbox[2]

\* The events socket r receives in this transition.
newly(r) == inbox'[r] \ inbox[r]

\* C23: user_online of a join reaches only the other sockets in the room of
\* that chat; user_offline of a leave reaches only the other sockets in the
\* room the socket has left; user_offline of a disconnection reaches only
\* the other sockets that share a chat room with the socket that has gone.
C23_Step ==
  \A s \in SocketIds :
    /\ \A c \in ChatIds :
         JoinChat(s, c) =>
           \A r \in SocketIds : newly(r) # {} => (r # s /\ chatRoom(c) \in sockets[r].rooms)
    /\ \A c \in ChatIds :
         LeaveChat(s, c) =>
           \A r \in SocketIds :
             newly(r) # {} => /\ r # s
                              /\ chatRoom(c) \in sockets[r].rooms
                              /\ chatRoom(c) \in sockets[s].rooms
    /\ Disconnect(s) =>
         \A r \in SocketIds \ {s} :
           newly(r) # {} => \E c \in ChatIds : /\ chatRoom(c) \in sockets[s].rooms
                                               /\ chatRoom(c) \in sockets[r].rooms

C23_PresenceScoped == [][C23_Step]_vars

\* C25: when a socket of a user disconnects while the user's entry points
\* at another socket, still connected for that user, the entry stays.
C25_Step ==
  \A s, r \in SocketIds :
    (/\ s # r /\ disconnects(s)
     /\ sockets[r].user = sockets[s].user
     /\ activeUsers[sockets[s].user].socket = r)
    => activeUsers'[sockets[s].user].socket = r

C25_EntryOfLiveConnection == [][C25_Step]_vars

\* C28: a socket is in the room of a chat only if its user is a participant
\* of the chat; the events sent to the room of a chat are received only by
\* sockets of its participants and are caused only by its participants.
C28_RoomsOfParticipants ==
  /\ \A s \in SocketIds : \A c \in DOMAIN chats :
       chatRoom(c) \in sockets[s].rooms => sockets[s].user \in Range(chats[c].participants)
  /\ \A s \in SocketIds : \A e \in inbox[s] :
       (e.room[1] = "chat" /\ e.chat \in DOMAIN chats)
       => sockets[s].user \in Range(chats[e.chat].participants)
  /\ \A e \in emitted :
       (e.room[1] = "chat" /\ e.chat \in DOMAIN chats)
       => e.from \in Range(chats[e.chat].participants)

\* C29: the only personal room a socket is in is the room of the user it
\* authenticated as, whatever it joins; every new_chat and new_message event
\* a socket has received is about a chat its user is a participant of.
C29_PersonalIsolation ==
  \A s \in SocketIds :
    /\ \A room \in sockets[s].rooms : room[1] = "user" => room[2] = sockets[s].user
    /\ \A e \in inbox[s] :
         e.event \in {"new_chat", "new_message"}
         => /\ e.chat \in DOMAIN chats
            /\ sockets[s].user \in Range(chats[e.chat].participants)
            /\ e.room = <<"user", sockets[s].user>>

\* The socket of k1 has received new_chat and new_message of chat 1; the
\* socket of the outsider k2, connected before the chat was created and in
\* the room of chat 1 since, has received neither.
C29_Witness ==
  /\ sockets[1].user = "k1" /\ sockets[2].user = "k2"
  /\ chatRoom(1) \in sockets[2].rooms
  /\ \E e \in inbox[1] : e.event = "new_chat" /\ e.chat = 1
  /\ \E e \in inbox[1] : e.event = "new_message" /\ e.chat = 1 /\ e.from = "b1"
  /\ \A e \in inbox[2] : e.event \notin {"new_chat", "new_message"}
  /\ \E e \in inbox[2] : e.event = "user_online"

====
